---- MODULE Spec2Model ----
(***************************************************************************)
(* rctree: a DOM-like tree built from reference-counted records.           *)
(*                                                                         *)
(* A record (NodeData) has four weak links (root, parent, last_child,      *)
(* previous_sibling), two strong links (first_child, next_sibling) and a   *)
(* payload guarded, together with the links, by one RefCell.  Records are  *)
(* numbered from 1; 0 stands for None.  A weak link keeps the number of    *)
(* its target after the target is destroyed and then resolves to None.     *)
(*                                                                         *)
(* Two programs are modelled: one that makes any calls on up to MaxNodes   *)
(* nodes, and the it_works test of tests/tests.rs on its ten nodes.  The   *)
(* first comes in four kinds: plain (Spec), with payload accessors         *)
(* (SpecAccess), with copies (SpecCopy), and with a Traverse or            *)
(* Descendants iterator stepped between its calls (SpecWalk).              *)
(***************************************************************************)
EXTENDS Integers, Sequences, FiniteSets, TLC

MaxNodes == 3
MaxCalls == 3
MaxShared == 2
MaxAccessors == 2

(* The nodes the it_works test creates.                                    *)
ItWorksNodes == 10

None == 0

VARIABLES
    root, parent, first_child, last_child, previous_sibling, next_sibling,
    life,       \* per record: "unborn", "live" or "dead"
    data,       \* per record: the payload
    held,       \* records the program holds a Node handle to
    bstate,     \* per record RefCell state: -1 exclusive, 0 free, n shared
    accessors,  \* per record: the Ref and RefMut payload accessors open on it
    calls,      \* number of mutation calls made so far
    pc,         \* position in the it_works test; 0 in the program that is not it
    walk,       \* the Traverse or Descendants iterator the program holds
    last        \* the last call made and its outcome

links == <<root, parent, first_child, last_child, previous_sibling, next_sibling>>
vars == <<root, parent, first_child, last_child, previous_sibling, next_sibling,
          life, data, held, bstate, accessors, calls, pc, walk, last>>

(* The records the program can construct.                                  *)
NodeId == DOMAIN life
Link == {None} \cup NodeId
Records == Cardinality(NodeId)

(* NodeEdge, with NoEdge for the None of an Option<NodeEdge>.              *)
Start(n) == [edge |-> "Start", node |-> n]
End(n) == [edge |-> "End", node |-> n]
NoEdge == [edge |-> "None", node |-> None]

(* No iterator held.                                                       *)
NoWalk == [kind |-> "none", it |-> [root |-> None, next |-> NoEdge]]

(* The Node handles an iterator owns: its root and the node of the edge    *)
(* it yields next.                                                         *)
WalkHandles == {walk.it.root, walk.it.next.node} \ {None}

(* All Node handles in scope.                                              *)
Handles == held \cup WalkHandles

(* The record graph as one value, threaded through the steps of a call,    *)
(* with the Node handles in scope: the program's and the call's locals.    *)
Heap ==
    [root |-> root, parent |-> parent, first_child |-> first_child,
     last_child |-> last_child, previous_sibling |-> previous_sibling,
     next_sibling |-> next_sibling, life |-> life, data |-> data,
     handles |-> Handles, status |-> "ok"]

Commit(h) ==
    /\ root' = h.root
    /\ parent' = h.parent
    /\ first_child' = h.first_child
    /\ last_child' = h.last_child
    /\ previous_sibling' = h.previous_sibling
    /\ next_sibling' = h.next_sibling
    /\ life' = h.life
    /\ data' = h.data

Fail(h, why) == IF h.status = "ok" THEN [h EXCEPT !.status = why] ELSE h

(* Weak::upgrade: the target if it still exists.                           *)
upgrade(h, w) == IF w # None /\ h.life[w] = "live" THEN w ELSE None

(* A count that leaves out the strong links of other records.              *)
strong_count_of_handles(h, n, handles) == IF n \in handles THEN 1 ELSE 0

(* Rc strong count of n: handles (and locals of the running call) plus the *)
(* strong links of existing records.                                       *)
strong_count(h, n, handles) ==
    (IF n \in handles THEN 1 ELSE 0)
    + Cardinality({m \in NodeId : h.life[m] = "live" /\ h.first_child[m] = n})
    + Cardinality({m \in NodeId : h.life[m] = "live" /\ h.next_sibling[m] = n})

(* Dropping: every record whose strong count is zero (none of them has a   *)
(* handle) is destroyed, which drops the links it holds, and so on.        *)
RECURSIVE drop_dead(_, _)
drop_dead(h, handles) ==
    LET dying == {n \in NodeId \ handles :
                     h.life[n] = "live" /\ strong_count(h, n, handles) = 0}
        wipe(f) == [n \in NodeId |-> IF n \in dying THEN None ELSE f[n]]
    IN  IF dying = {} THEN h
        ELSE drop_dead([h EXCEPT !.life = [n \in NodeId |-> IF n \in dying THEN "dead" ELSE h.life[n]],
                                 !.root = wipe(h.root),
                                 !.parent = wipe(h.parent),
                                 !.first_child = wipe(h.first_child),
                                 !.last_child = wipe(h.last_child),
                                 !.previous_sibling = wipe(h.previous_sibling),
                                 !.next_sibling = wipe(h.next_sibling)],
                       handles)

(* The debug_assert! checks of append, prepend, insert_after and           *)
(* insert_before are modelled as compiled in (a debug build): a failing    *)
(* one ends the call with "DebugAssert".  DebugAssertionsHold below states *)
(* that none fails, so that a release build takes the same steps.          *)

(* RefCell::borrow_mut on n succeeds only when n is neither borrowed by a  *)
(* payload accessor nor already borrowed by the running call.              *)
can_borrow_mut(n, locked) == bstate[n] = 0 /\ n \notin locked

(* RefCell::borrow on n succeeds unless n is mutably borrowed.             *)
can_borrow_always(n) == TRUE

can_borrow(n) == bstate[n] >= 0


(***************************************************************************)
(* NodeData::detach on record n, called with the records in locked         *)
(* mutably borrowed (n among them).  The three links of n are taken        *)
(* first; the adjoining records are borrowed and rewritten afterwards.     *)
(***************************************************************************)

(* The record after n points back to what was before n; without a next     *)
(* sibling the parent's last_child does.                                   *)
detach_relink_backward_unlinked(h, next_sibling_strong, parent_strong, previous_sibling_weak, locked) ==
    IF next_sibling_strong # None
    THEN IF can_borrow_mut(next_sibling_strong, locked) THEN h
         ELSE Fail(h, "BorrowConflict")
    ELSE IF parent_strong # None
         THEN IF can_borrow_mut(parent_strong, locked)
              THEN [h EXCEPT !.last_child[parent_strong] = previous_sibling_weak]
              ELSE Fail(h, "BorrowConflict")
         ELSE h

detach_relink_backward(h, next_sibling_strong, parent_strong, previous_sibling_weak, locked) ==
    IF next_sibling_strong # None
    THEN IF can_borrow_mut(next_sibling_strong, locked)
         THEN [h EXCEPT !.previous_sibling[next_sibling_strong] = previous_sibling_weak]
         ELSE Fail(h, "BorrowConflict")
    ELSE IF parent_strong # None
         THEN IF can_borrow_mut(parent_strong, locked)
              THEN [h EXCEPT !.last_child[parent_strong] = previous_sibling_weak]
              ELSE Fail(h, "BorrowConflict")
         ELSE h

(* The record before n points on to what was after n; without a previous   *)
(* sibling the parent's first_child does.                                  *)
detach_relink_forward_dropping(h, previous_sibling_opt, parent_strong, next_sibling_strong, locked) ==
    IF h.status # "ok" THEN h
    ELSE IF previous_sibling_opt # None
         THEN IF can_borrow_mut(previous_sibling_opt, locked)
              THEN [h EXCEPT !.next_sibling[previous_sibling_opt] = None]
              ELSE Fail(h, "BorrowConflict")
         ELSE IF parent_strong # None
              THEN IF can_borrow_mut(parent_strong, locked)
                   THEN [h EXCEPT !.first_child[parent_strong] = next_sibling_strong]
                   ELSE Fail(h, "BorrowConflict")
              ELSE h

detach_relink_forward(h, previous_sibling_opt, parent_strong, next_sibling_strong, locked) ==
    IF h.status # "ok" THEN h
    ELSE IF previous_sibling_opt # None
         THEN IF can_borrow_mut(previous_sibling_opt, locked)
              THEN [h EXCEPT !.next_sibling[previous_sibling_opt] = next_sibling_strong]
              ELSE Fail(h, "BorrowConflict")
         ELSE IF parent_strong # None
              THEN IF can_borrow_mut(parent_strong, locked)
                   THEN [h EXCEPT !.first_child[parent_strong] = next_sibling_strong]
                   ELSE Fail(h, "BorrowConflict")
              ELSE h

NodeData_detach(h, n, locked) ==
    LET parent_weak == h.parent[n]
        previous_sibling_weak == h.previous_sibling[n]
        next_sibling_strong == h.next_sibling[n]
        previous_sibling_opt == upgrade(h, previous_sibling_weak)
        parent_strong == upgrade(h, parent_weak)
        h1 == [h EXCEPT !.parent[n] = None,
                        !.previous_sibling[n] = None,
                        !.next_sibling[n] = None]
        h2 == detach_relink_backward(h1, next_sibling_strong, parent_strong,
                                     previous_sibling_weak, locked)
        h3 == detach_relink_forward(h2, previous_sibling_opt, parent_strong,
                                    next_sibling_strong, locked)
    IN  drop_dead(h3, h.handles)

(* PartialEq for Node: identity of the record (Rc::ptr_eq).                *)
same_node_never(a, b) == FALSE

same_node(a, b) == a = b

(* Node::detach: borrow the record mutably, then NodeData::detach.         *)
detach_op(self) ==
    IF ~can_borrow_mut(self, {}) THEN Fail(Heap, "BorrowConflict")
    ELSE NodeData_detach(Heap, self, {self})

(* Node::append, its last step: the former last child, or else the parent, *)
(* takes the strong link to the new child.                                 *)
append_link_as_only_child(h, self, new_child, last_child_strong) ==
    [h EXCEPT !.first_child[self] = new_child]

append_link(h, self, new_child, last_child_strong) ==
    IF last_child_strong # None
    THEN IF ~can_borrow_mut(last_child_strong, {self}) THEN Fail(h, "BorrowConflict")
         ELSE IF h.next_sibling[last_child_strong] # None THEN Fail(h, "DebugAssert")
         ELSE [h EXCEPT !.next_sibling[last_child_strong] = new_child]
    ELSE IF h.first_child[self] # None THEN Fail(h, "DebugAssert")
         ELSE [h EXCEPT !.first_child[self] = new_child]

(* Node::append on the heap h.                                             *)
append_on(h, self, new_child) ==
    IF same_node(self, new_child) THEN Fail(h, "SelfInsertion")
    ELSE IF ~can_borrow_mut(self, {}) THEN Fail(h, "BorrowConflict")
    ELSE IF ~can_borrow_mut(new_child, {self}) THEN Fail(h, "BorrowConflict")
    ELSE
    LET h1 == NodeData_detach(h, new_child, {self, new_child}) IN
    IF h1.status # "ok" THEN h1 ELSE
    LET last_child_weak == h1.last_child[self]
        last_child_strong == upgrade(h1, last_child_weak)
        h2 == [h1 EXCEPT
                 !.root[new_child] = IF h1.root[self] # None THEN h1.root[self] ELSE self,
                 !.parent[new_child] = self,
                 !.previous_sibling[new_child] =
                      IF last_child_strong # None THEN last_child_weak ELSE @,
                 !.last_child[self] = new_child]
    IN  append_link(h2, self, new_child, last_child_strong)

(* Node::append, called by the program.                                    *)
append_op(self, new_child) == append_on(Heap, self, new_child)

(* Node::prepend, the match on the former first child: it gets the new     *)
(* child as previous sibling; without one the new child is also the last.  *)
prepend_link_first_only(h, self, new_child, first_child_strong) ==
    IF first_child_strong # None
    THEN IF ~can_borrow_mut(first_child_strong, {self, new_child})
         THEN Fail(h, "BorrowConflict")
         ELSE IF h.previous_sibling[first_child_strong] # None
              THEN Fail(h, "DebugAssert")
         ELSE [h EXCEPT !.previous_sibling[first_child_strong] = new_child,
                        !.next_sibling[new_child] = first_child_strong]
    ELSE h

(* A prepend that leaves the former first child without previous sibling.  *)
prepend_link_forward_only(h, self, new_child, first_child_strong) ==
    IF first_child_strong # None
    THEN IF ~can_borrow_mut(first_child_strong, {self, new_child})
         THEN Fail(h, "BorrowConflict")
         ELSE IF h.previous_sibling[first_child_strong] # None
              THEN Fail(h, "DebugAssert")
         ELSE [h EXCEPT !.next_sibling[new_child] = first_child_strong]
    ELSE [h EXCEPT !.last_child[self] = new_child]

prepend_link(h, self, new_child, first_child_strong) ==
    IF first_child_strong # None
    THEN IF ~can_borrow_mut(first_child_strong, {self, new_child})
         THEN Fail(h, "BorrowConflict")
         ELSE IF h.previous_sibling[first_child_strong] # None
              THEN Fail(h, "DebugAssert")
         ELSE [h EXCEPT !.previous_sibling[first_child_strong] = new_child,
                        !.next_sibling[new_child] = first_child_strong]
    ELSE [h EXCEPT !.last_child[self] = new_child]

(* Node::prepend.                                                          *)
prepend_op(self, new_child) ==
    IF same_node(self, new_child) THEN Fail(Heap, "SelfInsertion")
    ELSE IF ~can_borrow_mut(self, {}) THEN Fail(Heap, "BorrowConflict")
    ELSE IF ~can_borrow_mut(new_child, {self}) THEN Fail(Heap, "BorrowConflict")
    ELSE
    LET h1 == NodeData_detach(Heap, new_child, {self, new_child}) IN
    IF h1.status # "ok" THEN h1 ELSE
    LET first_child_strong == h1.first_child[self]
        h2 == [h1 EXCEPT
                 !.root[new_child] = IF h1.root[self] # None THEN h1.root[self] ELSE self,
                 !.parent[new_child] = self,
                 !.first_child[self] = None]
        h3 == prepend_link(h2, self, new_child, first_child_strong)
    IN  IF h3.status # "ok" THEN h3
        ELSE [h3 EXCEPT !.first_child[self] = new_child]

(* An insert_after that leaves the new sibling without parent.             *)
insert_after_op_parentless(self, new_sibling) ==
    IF same_node(self, new_sibling) THEN Fail(Heap, "SelfInsertion")
    ELSE IF ~can_borrow_mut(self, {}) THEN Fail(Heap, "BorrowConflict")
    ELSE IF ~can_borrow_mut(new_sibling, {self}) THEN Fail(Heap, "BorrowConflict")
    ELSE
    LET h1 == NodeData_detach(Heap, new_sibling, {self, new_sibling}) IN
    IF h1.status # "ok" THEN h1 ELSE
    LET next_sibling_strong == h1.next_sibling[self]
        parent_strong == upgrade(h1, h1.parent[self])
        h2 == [h1 EXCEPT
                 !.root[new_sibling] = h1.root[self],
                 !.parent[new_sibling] = None,
                 !.previous_sibling[new_sibling] = self,
                 !.next_sibling[self] = None]
        h3 == IF next_sibling_strong # None
              THEN IF ~can_borrow_mut(next_sibling_strong, {self, new_sibling})
                   THEN Fail(h2, "BorrowConflict")
                   ELSE IF upgrade(h2, h2.previous_sibling[next_sibling_strong]) # self
                        THEN Fail(h2, "DebugAssert")
                   ELSE [h2 EXCEPT !.previous_sibling[next_sibling_strong] = new_sibling,
                                   !.next_sibling[new_sibling] = next_sibling_strong]
              ELSE IF parent_strong # None
                   THEN IF ~can_borrow_mut(parent_strong, {self, new_sibling})
                        THEN Fail(h2, "BorrowConflict")
                        ELSE [h2 EXCEPT !.last_child[parent_strong] = new_sibling]
                   ELSE h2
    IN  IF h3.status # "ok" THEN h3
        ELSE [h3 EXCEPT !.next_sibling[self] = new_sibling]

(* Node::insert_after.                                                     *)
insert_after_op(self, new_sibling) ==
    IF same_node(self, new_sibling) THEN Fail(Heap, "SelfInsertion")
    ELSE IF ~can_borrow_mut(self, {}) THEN Fail(Heap, "BorrowConflict")
    ELSE IF ~can_borrow_mut(new_sibling, {self}) THEN Fail(Heap, "BorrowConflict")
    ELSE
    LET h1 == NodeData_detach(Heap, new_sibling, {self, new_sibling}) IN
    IF h1.status # "ok" THEN h1 ELSE
    LET next_sibling_strong == h1.next_sibling[self]
        parent_strong == upgrade(h1, h1.parent[self])
        h2 == [h1 EXCEPT
                 !.root[new_sibling] = h1.root[self],
                 !.parent[new_sibling] = h1.parent[self],
                 !.previous_sibling[new_sibling] = self,
                 !.next_sibling[self] = None]
        h3 == IF next_sibling_strong # None
              THEN IF ~can_borrow_mut(next_sibling_strong, {self, new_sibling})
                   THEN Fail(h2, "BorrowConflict")
                   ELSE IF upgrade(h2, h2.previous_sibling[next_sibling_strong]) # self
                        THEN Fail(h2, "DebugAssert")
                   ELSE [h2 EXCEPT !.previous_sibling[next_sibling_strong] = new_sibling,
                                   !.next_sibling[new_sibling] = next_sibling_strong]
              ELSE IF parent_strong # None
                   THEN IF ~can_borrow_mut(parent_strong, {self, new_sibling})
                        THEN Fail(h2, "BorrowConflict")
                        ELSE [h2 EXCEPT !.last_child[parent_strong] = new_sibling]
                   ELSE h2
    IN  IF h3.status # "ok" THEN h3
        ELSE [h3 EXCEPT !.next_sibling[self] = new_sibling]

(* Node::insert_before.                                                    *)
insert_before_op(self, new_sibling) ==
    IF same_node(self, new_sibling) THEN Fail(Heap, "SelfInsertion")
    ELSE IF ~can_borrow_mut(self, {}) THEN Fail(Heap, "BorrowConflict")
    ELSE IF ~can_borrow_mut(new_sibling, {self}) THEN Fail(Heap, "BorrowConflict")
    ELSE
    LET h1 == NodeData_detach(Heap, new_sibling, {self, new_sibling}) IN
    IF h1.status # "ok" THEN h1 ELSE
    LET previous_sibling_weak == h1.previous_sibling[self]
        previous_sibling_strong == upgrade(h1, previous_sibling_weak)
        parent_strong == upgrade(h1, h1.parent[self])
        h2 == [h1 EXCEPT
                 !.root[new_sibling] = h1.root[self],
                 !.parent[new_sibling] = h1.parent[self],
                 !.next_sibling[new_sibling] = self,
                 !.previous_sibling[new_sibling] =
                      IF previous_sibling_strong # None THEN previous_sibling_weak ELSE @,
                 !.previous_sibling[self] = new_sibling]
    IN  IF previous_sibling_strong # None
        THEN IF ~can_borrow_mut(previous_sibling_strong, {self}) THEN Fail(h2, "BorrowConflict")
             ELSE IF h2.next_sibling[previous_sibling_strong] # self
                  THEN Fail(h2, "DebugAssert")
             ELSE [h2 EXCEPT !.next_sibling[previous_sibling_strong] = new_sibling]
        ELSE IF parent_strong # None
             THEN IF ~can_borrow_mut(parent_strong, {self}) THEN Fail(h2, "BorrowConflict")
                  ELSE [h2 EXCEPT !.first_child[parent_strong] = new_sibling]
             ELSE h2


(***************************************************************************)
(* The program: it constructs nodes, clones and drops handles, navigates,  *)
(* opens and closes payload accessors, and calls the mutation operations   *)
(* on nodes it holds handles to.  A panic ends the run.                    *)
(***************************************************************************)
Call(op, self, arg, result) == [op |-> op, self |-> self, arg |-> arg, result |-> result]

(* What last holds after a step that is not a mutation call.               *)
NoCall == Call("none", None, None, "ok")

Running == last.result = "ok"

InitWith(ids, start) ==
    /\ life = [n \in ids |-> "unborn"]
    /\ data = [n \in ids |-> 0]
    /\ root = [n \in ids |-> None]
    /\ parent = [n \in ids |-> None]
    /\ first_child = [n \in ids |-> None]
    /\ last_child = [n \in ids |-> None]
    /\ previous_sibling = [n \in ids |-> None]
    /\ next_sibling = [n \in ids |-> None]
    /\ held = {}
    /\ bstate = [n \in ids |-> 0]
    /\ accessors = [n \in ids |-> [ref |-> 0, ref_mut |-> 0]]
    /\ calls = 0
    /\ pc = start
    /\ walk = NoWalk
    /\ last = NoCall

Init == InitWith(1..MaxNodes, 0) \/ InitWith(1..ItWorksNodes, 1)

(* Node::new: an isolated record, all six links None; the payload is the   *)
(* number of the record, as the labels of it_works are.  The program       *)
(* calls it for the first MaxNodes records.                                *)
Node_new ==
    /\ Running /\ pc = 0
    /\ \E n \in NodeId :
        /\ n <= MaxNodes
        /\ life[n] = "unborn"
        /\ \A m \in NodeId : m < n => life[m] # "unborn"
        /\ life' = [life EXCEPT ![n] = "live"]
        /\ data' = [data EXCEPT ![n] = n]
        /\ held' = held \cup {n}
        /\ last' = NoCall
    /\ UNCHANGED <<links, bstate, accessors, calls, pc, walk>>

(* Dropping the program's handle(s) to n; no payload accessor of n is open *)
(* (an accessor borrows the handle it was made from).                      *)
DropHandle(n) ==
    /\ Running /\ pc = 0
    /\ n \in held
    /\ bstate[n] = 0
    /\ held' = held \ {n}
    /\ Commit(drop_dead(Heap, (held \ {n}) \cup WalkHandles))
    /\ last' = NoCall
    /\ UNCHANGED <<bstate, accessors, calls, pc, walk>>

(* A mutation call on held handles; the argument is passed as a clone.     *)
Mutation(op, self, arg, h) ==
    /\ Running /\ pc = 0
    /\ self \in held
    /\ arg \in held \cup {None}
    /\ calls < MaxCalls
    /\ calls' = calls + 1
    /\ LET hf == drop_dead(h, Handles) IN
        /\ Commit(hf)
        /\ last' = Call(op, self, arg, hf.status)
    /\ UNCHANGED <<held, bstate, accessors, pc, walk>>

Node_detach(self) == Mutation("detach", self, None, detach_op(self))
Node_append(self, new_child) == Mutation("append", self, new_child, append_op(self, new_child))
Node_prepend(self, new_child) == Mutation("prepend", self, new_child, prepend_op(self, new_child))
Node_insert_after(self, new_sibling) ==
    Mutation("insert_after", self, new_sibling, insert_after_op(self, new_sibling))
Node_insert_before(self, new_sibling) ==
    Mutation("insert_before", self, new_sibling, insert_before_op(self, new_sibling))

(* The number of payload accessors the program has open: on each record   *)
(* one RefMut, or as many Ref as its RefCell counts.                       *)
OpenAccessors ==
    Cardinality({p \in NodeId \X (1..MaxShared) :
                    IF bstate[p[1]] < 0 THEN p[2] = 1 ELSE p[2] <= bstate[p[1]]})

(* Node::borrow: RefCell::borrow, which hands out a Ref unless the record   *)
(* is mutably borrowed.  The program keeps at most MaxAccessors accessors  *)
(* open, at most MaxShared of them on one node.                            *)
Node_borrow(n) ==
    /\ Running /\ pc = 0
    /\ n \in held
    /\ can_borrow(n) => (bstate[n] < MaxShared /\ OpenAccessors < MaxAccessors)
    /\ IF can_borrow(n)
       THEN /\ bstate' = [bstate EXCEPT ![n] = @ + 1]
            /\ accessors' = [accessors EXCEPT ![n].ref = @ + 1]
            /\ last' = Call("borrow", n, None, "ok")
       ELSE /\ UNCHANGED <<bstate, accessors>>
            /\ last' = Call("borrow", n, None, "BorrowConflict")
    /\ UNCHANGED <<links, life, data, held, calls, pc, walk>>

(* Node::borrow_mut: RefCell::borrow_mut, which hands out a RefMut only    *)
(* when the record is not borrowed at all.                                 *)
Node_borrow_mut(n) ==
    /\ Running /\ pc = 0
    /\ n \in held
    /\ can_borrow_mut(n, {}) => OpenAccessors < MaxAccessors
    /\ IF can_borrow_mut(n, {})
       THEN /\ bstate' = [bstate EXCEPT ![n] = -1]
            /\ accessors' = [accessors EXCEPT ![n].ref_mut = @ + 1]
            /\ last' = Call("borrow_mut", n, None, "ok")
       ELSE /\ UNCHANGED <<bstate, accessors>>
            /\ last' = Call("borrow_mut", n, None, "BorrowConflict")
    /\ UNCHANGED <<links, life, data, held, calls, pc, walk>>

(* Dropping a Ref or a RefMut of n.                                        *)
Release(n) ==
    /\ Running /\ pc = 0
    /\ \/ /\ accessors[n].ref > 0
          /\ accessors' = [accessors EXCEPT ![n].ref = @ - 1]
          /\ bstate' = [bstate EXCEPT ![n] = @ - 1]
       \/ /\ accessors[n].ref_mut > 0
          /\ accessors' = [accessors EXCEPT ![n].ref_mut = @ - 1]
          /\ bstate' = [bstate EXCEPT ![n] = @ + 1]
    /\ last' = NoCall
    /\ UNCHANGED <<links, life, data, held, calls, pc, walk>>

(* The six navigation accessors, as values: a record number, None, or a    *)
(* panic.                                                                  *)
Ok(v) == [status |-> "ok", value |-> v]
Panic(why) == [status |-> why, value |-> None]

Node_root(n) ==
    IF ~can_borrow(n) THEN Panic("BorrowConflict")
    ELSE IF root[n] = None THEN Ok(n)
    ELSE IF upgrade(Heap, root[n]) = None THEN Panic("UnwrapNone")
    ELSE Ok(root[n])
Node_parent(n) ==
    IF ~can_borrow(n) THEN Panic("BorrowConflict") ELSE Ok(upgrade(Heap, parent[n]))
Node_first_child(n) ==
    IF ~can_borrow(n) THEN Panic("BorrowConflict") ELSE Ok(first_child[n])
Node_last_child(n) ==
    IF ~can_borrow(n) THEN Panic("BorrowConflict") ELSE Ok(upgrade(Heap, last_child[n]))
Node_previous_sibling(n) ==
    IF ~can_borrow(n) THEN Panic("BorrowConflict") ELSE Ok(upgrade(Heap, previous_sibling[n]))
Node_next_sibling(n) ==
    IF ~can_borrow(n) THEN Panic("BorrowConflict") ELSE Ok(next_sibling[n])

Accessor(f, n) ==
    CASE f = "root" -> Node_root(n)
      [] f = "parent" -> Node_parent(n)
      [] f = "first_child" -> Node_first_child(n)
      [] f = "last_child" -> Node_last_child(n)
      [] f = "previous_sibling" -> Node_previous_sibling(n)
      [] f = "next_sibling" -> Node_next_sibling(n)

AccessorNames ==
    {"root", "parent", "first_child", "last_child", "previous_sibling", "next_sibling"}

(* Calling an accessor on a held node and keeping the handle it returns.   *)
(* (What an accessor returns in each state, panics included, is the value  *)
(* of the operators above.)                                                *)
Navigate(n, f) ==
    /\ Running /\ pc = 0
    /\ n \in held
    /\ LET r == Accessor(f, n) IN
        /\ r.status = "ok"
        /\ r.value # None
        /\ r.value \notin held
        /\ held' = held \cup {r.value}
        /\ last' = NoCall
    /\ UNCHANGED <<links, life, data, bstate, accessors, calls, pc, walk>>

(***************************************************************************)
(* The it_works test (tests/tests.rs 27-51), one statement or part of a    *)
(* statement per step.  Node::new numbers the records as the test's        *)
(* counter labels them; a is node 1, b is node 5, c is node 10.  A node    *)
(* passed by value, or a handle returned by an accessor and used in place, *)
(* is a temporary that its statement drops at the end.                     *)
(***************************************************************************)
Stmt(op, self, arg, drops) == [op |-> op, self |-> self, arg |-> arg, drops |-> drops]

ItWorks ==
    << Stmt("new", None, None, {}),                                   \* let mut a = new();  // 1
       Stmt("new", None, None, {}), Stmt("append", 1, 2, {2}),        \* a.append(new());  // 2
       Stmt("new", None, None, {}), Stmt("append", 1, 3, {3}),        \* a.append(new());  // 3
       Stmt("new", None, None, {}), Stmt("prepend", 1, 4, {4}),       \* a.prepend(new());  // 4
       Stmt("new", None, None, {}),                                   \* let mut b = new();  // 5
       Stmt("append", 5, 1, {}),                                      \* b.append(a.clone());
       Stmt("new", None, None, {}), Stmt("insert_before", 1, 6, {6}), \* a.insert_before(new());  // 6
       Stmt("new", None, None, {}), Stmt("insert_before", 1, 7, {7}), \* a.insert_before(new());  // 7
       Stmt("new", None, None, {}), Stmt("insert_after", 1, 8, {8}),  \* a.insert_after(new());  // 8
       Stmt("new", None, None, {}), Stmt("insert_after", 1, 9, {9}),  \* a.insert_after(new());  // 9
       Stmt("new", None, None, {}),                                   \* let c = new();  // 10
       Stmt("append", 5, 10, {}),                                     \* b.append(c.clone());
       Stmt("previous_sibling", 10, None, {}),                        \* c.previous_sibling().unwrap()
       Stmt("detach", Node_previous_sibling(10).value, None, {}),     \*     .detach();
       Stmt("drop", last.self, None, {last.self}),                    \*   the temporary dropped
       Stmt("drop", 10, None, {10}),                                  \* } drops c,
       Stmt("drop", 5, None, {5}),                                    \*   then b,
       Stmt("drop", 1, None, {1}) >>                                  \*   then a

(* Where the test stands: built, after the detach statement, at the end.   *)
ItWorksBuilt == 20
ItWorksTemporary == ItWorksBuilt + 1
ItWorksDetached == ItWorksTemporary + 2
ItWorksEnd == ItWorksDetached + 3

(* The heap after the mutation call op(self, arg).                         *)
Op(op, self, arg) ==
    CASE op = "detach" -> detach_op(self)
      [] op = "append" -> append_op(self, arg)
      [] op = "prepend" -> prepend_op(self, arg)
      [] op = "insert_after" -> insert_after_op(self, arg)
      [] op = "insert_before" -> insert_before_op(self, arg)

it_works ==
    /\ Running
    /\ pc > 0
    /\ pc \in 1..Len(ItWorks)
    /\ pc' = pc + 1
    /\ LET s == ItWorks[pc] IN
       CASE s.op = "new" ->
                \E n \in NodeId :
                    /\ life[n] = "unborn"
                    /\ \A m \in NodeId : m < n => life[m] # "unborn"
                    /\ life' = [life EXCEPT ![n] = "live"]
                    /\ data' = [data EXCEPT ![n] = n]
                    /\ held' = held \cup {n}
                    /\ last' = NoCall
                    /\ UNCHANGED links
         [] s.op \in AccessorNames ->
                LET r == Accessor(s.op, s.self) IN
                    /\ s.self \in held
                    /\ r.status = "ok" /\ r.value # None
                    /\ held' = held \cup {r.value}
                    /\ last' = NoCall
                    /\ UNCHANGED <<links, life, data>>
         [] s.op = "drop" ->
                /\ s.self \in held
                /\ held' = held \ s.drops
                /\ Commit(drop_dead(Heap, held \ s.drops))
                /\ last' = NoCall
         [] OTHER ->
                LET h == drop_dead(Op(s.op, s.self, s.arg), held)
                    hf == IF h.status = "ok" THEN drop_dead(h, held \ s.drops) ELSE h
                IN  /\ s.self \in held
                    /\ s.arg \in held \cup {None}
                    /\ Commit(hf)
                    /\ held' = held \ s.drops
                    /\ last' = Call(s.op, s.self, s.arg, hf.status)
    /\ UNCHANGED <<bstate, accessors, calls, walk>>

(***************************************************************************)
(* make_copy and make_deep_copy.                                           *)
(***************************************************************************)
(* The record Node::new constructs next on the heap h, None when the model *)
(* has no record left.                                                     *)
fresh_record(h) ==
    LET unborn == {n \in NodeId : h.life[n] = "unborn"}
    IN  IF unborn = {} THEN None ELSE CHOOSE n \in unborn : \A m \in unborn : n <= m

(* A copy that takes the number of the new record as payload.              *)
make_copy_relabelled(h, n) ==
    IF h.status # "ok" THEN h
    ELSE IF ~can_borrow(n) THEN Fail(h, "BorrowConflict")
    ELSE LET c == fresh_record(h) IN
         IF c = None THEN Fail(h, "OutOfRecords")
         ELSE [h EXCEPT !.life[c] = "live", !.data[c] = c, !.handles = @ \cup {c}]

(* Node::make_copy: Node::new(self.borrow().clone()).                      *)
make_copy_on(h, n) ==
    IF h.status # "ok" THEN h
    ELSE IF ~can_borrow(n) THEN Fail(h, "BorrowConflict")
    ELSE LET c == fresh_record(h) IN
         IF c = None THEN Fail(h, "OutOfRecords")
         ELSE [h EXCEPT !.life[c] = "live", !.data[c] = h.data[n], !.handles = @ \cup {c}]

(* Node::_make_deep_copy(parent, node), from the child cursor of node on:  *)
(* each child is copied, the copy appended to parent, and the children of  *)
(* a child that has some copied under its copy.                            *)
RECURSIVE copy_children(_, _, _, _)
copy_children(h, parent_copy, cursor, fuel) ==
    IF h.status # "ok" \/ cursor = None THEN h
    ELSE IF fuel = 0 THEN Fail(h, "OutOfRecords")
    ELSE LET new_node == fresh_record(h)
             h1 == make_copy_on(h, cursor)
             h2 == IF h1.status # "ok" THEN h1 ELSE append_on(h1, parent_copy, new_node)
             h3 == IF h2.status = "ok" /\ h2.first_child[cursor] # None
                   THEN copy_children(h2, new_node, h2.first_child[cursor], fuel - 1)
                   ELSE h2
             h4 == IF h3.status # "ok" THEN h3
                   ELSE drop_dead([h3 EXCEPT !.handles = @ \ {new_node}],
                                  h3.handles \ {new_node})
         IN  copy_children(h4, parent_copy, h.next_sibling[cursor], fuel - 1)

(* A copy of the node alone, its children left out.                        *)
make_deep_copy_shallow(h, n) == make_copy_on(h, n)

(* Node::make_deep_copy.                                                   *)
make_deep_copy_on(h, n) ==
    LET root_copy == fresh_record(h)
        h1 == make_copy_on(h, n)
    IN  IF h1.status # "ok" THEN h1
        ELSE copy_children(h1, root_copy, h1.first_child[n], Records)

(* A copying call on a held handle, returning a handle to the record c.  A *)
(* call that the records of the model do not suffice for is left out; one  *)
(* that panics drops what it made.                                         *)
Copying(op, self, h, c) ==
    /\ Running /\ pc = 0
    /\ self \in held
    /\ calls < MaxCalls
    /\ calls' = calls + 1
    /\ h.status # "OutOfRecords"
    /\ IF h.status = "ok"
       THEN /\ Commit(drop_dead(h, held \cup {c}))
            /\ held' = held \cup {c}
            /\ last' = Call(op, self, c, "ok")
       ELSE /\ Commit(drop_dead(h, held))
            /\ held' = held
            /\ last' = Call(op, self, None, h.status)
    /\ UNCHANGED <<bstate, accessors, pc, walk>>

Node_make_copy(n) == Copying("make_copy", n, make_copy_on(Heap, n), fresh_record(Heap))
Node_make_deep_copy(n) ==
    Copying("make_deep_copy", n, make_deep_copy_on(Heap, n), fresh_record(Heap))

(* A program that opens no payload accessor.                               *)
Next ==
    \/ Node_new
    \/ \E n \in NodeId : DropHandle(n)
    \/ \E n \in NodeId : Node_detach(n)
    \/ \E n \in NodeId, x \in NodeId : Node_append(n, x)
    \/ \E n \in NodeId, x \in NodeId : Node_prepend(n, x)
    \/ \E n \in NodeId, x \in NodeId : Node_insert_after(n, x)
    \/ \E n \in NodeId, x \in NodeId : Node_insert_before(n, x)
    \/ \E n \in NodeId, f \in AccessorNames : Navigate(n, f)
    \/ it_works

Spec == Init /\ [][Next]_vars

(* A program that also copies nodes and subtrees, with records for the     *)
(* copies.                                                                 *)
NextCopy ==
    \/ Node_new
    \/ \E n \in NodeId : DropHandle(n)
    \/ \E n \in NodeId : Node_detach(n)
    \/ \E n \in NodeId, x \in NodeId : Node_append(n, x)
    \/ \E n \in NodeId, x \in NodeId : Node_prepend(n, x)
    \/ \E n \in NodeId, x \in NodeId : Node_insert_after(n, x)
    \/ \E n \in NodeId, x \in NodeId : Node_insert_before(n, x)
    \/ \E n \in NodeId, f \in AccessorNames : Navigate(n, f)
    \/ \E n \in NodeId : Node_make_copy(n)
    \/ \E n \in NodeId : Node_make_deep_copy(n)

SpecCopy == InitWith(1..(2 * MaxNodes), 0) /\ [][NextCopy]_vars

(* A program that also opens and closes payload accessors.                 *)
NextAccess ==
    \/ Node_new
    \/ \E n \in NodeId : DropHandle(n)
    \/ \E n \in NodeId : Node_detach(n)
    \/ \E n \in NodeId, x \in NodeId : Node_append(n, x)
    \/ \E n \in NodeId, x \in NodeId : Node_prepend(n, x)
    \/ \E n \in NodeId, x \in NodeId : Node_insert_after(n, x)
    \/ \E n \in NodeId, x \in NodeId : Node_insert_before(n, x)
    \/ \E n \in NodeId, f \in AccessorNames : Navigate(n, f)
    \/ it_works
    \/ \E n \in NodeId : Node_borrow(n)
    \/ \E n \in NodeId : Node_borrow_mut(n)
    \/ \E n \in NodeId : Release(n)

SpecAccess == Init /\ [][NextAccess]_vars

DebugAssertionsHold == last.result # "DebugAssert"

TypeOK ==
    /\ \A n \in NodeId : /\ root[n] \in Link /\ parent[n] \in Link
                         /\ first_child[n] \in Link /\ last_child[n] \in Link
                         /\ previous_sibling[n] \in Link /\ next_sibling[n] \in Link
                         /\ life[n] \in {"unborn", "live", "dead"}
                         /\ data[n] \in Nat
                         /\ bstate[n] \in -1..MaxShared
                         /\ accessors[n].ref \in Nat /\ accessors[n].ref_mut \in Nat
    /\ held \subseteq {n \in NodeId : life[n] = "live"}
    /\ calls \in Nat /\ pc \in Nat
    /\ walk.kind \in {"none", "traverse", "descendants"}
    /\ walk.it.root \in Link /\ walk.it.next.node \in Link
    /\ WalkHandles \subseteq {n \in NodeId : life[n] = "live"}


(***************************************************************************)
(* Reading the structure.                                                  *)
(***************************************************************************)
Live(n) == life[n] = "live"
LiveNodes == {n \in NodeId : Live(n)}

(* The records a live record owns through its two strong links.            *)
StrongSucc(n) == {first_child[n], next_sibling[n]} \ {None}

RECURSIVE StrongClosure(_)
StrongClosure(S) ==
    LET T == S \cup UNION {StrongSucc(m) : m \in S}
    IN  IF T = S THEN S ELSE StrongClosure(T)

(* Everything reached from n by one or more strong links.                  *)
StronglyReaches(n) == StrongClosure(StrongSucc(n))

(* The last record reached from n by next_sibling links (at most fuel of   *)
(* them).                                                                  *)
RECURSIVE chain_last(_, _)
chain_last(n, fuel) ==
    IF next_sibling[n] = None \/ fuel = 0 THEN n
    ELSE chain_last(next_sibling[n], fuel - 1)

(* The mutation calls, and those that insert their argument.               *)
InsertOps == {"append", "prepend", "insert_after", "insert_before"}
MutationOps == InsertOps \cup {"detach"}
Completed == last.op \in MutationOps /\ last.result = "ok"

(* C1: after any sequence of completed append, prepend, insert_before,     *)
(* insert_after and detach calls, no record reaches itself by following    *)
(* one or more first_child/next_sibling links.                             *)
C1_Acyclic == Running => \A n \in LiveNodes : n \notin StronglyReaches(n)

(* C2: after every completed mutation, for all live records A and B,       *)
(* A.next_sibling is B exactly when B.previous_sibling resolves to A; a    *)
(* first child has no previous sibling, and a record without next sibling  *)
(* is the record its parent's last_child resolves to.                      *)
C2_SiblingChain ==
    Running =>
        /\ \A a \in LiveNodes, b \in LiveNodes :
              (next_sibling[a] = b) <=> (upgrade(Heap, previous_sibling[b]) = a)
        /\ \A b \in LiveNodes :
              LET p == upgrade(Heap, parent[b]) IN
              p # None =>
                  /\ (first_child[p] = b => upgrade(Heap, previous_sibling[b]) = None)
                  /\ (next_sibling[b] = None => upgrade(Heap, last_child[p]) = b)

(* C3: after every completed mutation, for every live record P,            *)
(* P.first_child is present exactly when P.last_child resolves; the first  *)
(* child has no previous sibling; and P.last_child resolves to the last    *)
(* record reached by next_sibling from P.first_child.                      *)
C3_ChildChain ==
    Running =>
        \A p \in LiveNodes :
            /\ (first_child[p] # None) <=> (upgrade(Heap, last_child[p]) # None)
            /\ first_child[p] # None =>
                  /\ upgrade(Heap, previous_sibling[first_child[p]]) = None
                  /\ upgrade(Heap, last_child[p]) = chain_last(first_child[p], Records)


(***************************************************************************)
(* The children iterators, as the sequence of nodes they yield when run to *)
(* the end on the current structure with no accessor open.  Fuel cuts a    *)
(* walk that would not end.                                                *)
(***************************************************************************)
Fuel == Records + 1

(* Children of lib.rs: seeded at first_child(), stepping by next_sibling().*)
RECURSIVE Children_walk(_, _)
Children_walk(cursor, fuel) ==
    IF cursor = None \/ fuel = 0 THEN <<>>
    ELSE <<cursor>> \o Children_walk(next_sibling[cursor], fuel - 1)

Children(p) == Children_walk(first_child[p], Fuel)

(* ReverseChildren of lib.rs: seeded at last_child(), stepping by          *)
(* previous_sibling().                                                     *)
RECURSIVE ReverseChildren_walk(_, _)
ReverseChildren_walk(cursor, fuel) ==
    IF cursor = None \/ fuel = 0 THEN <<>>
    ELSE <<cursor>> \o ReverseChildren_walk(upgrade(Heap, previous_sibling[cursor]), fuel - 1)

ReverseChildren(p) == ReverseChildren_walk(upgrade(Heap, last_child[p]), Fuel)

(* The double-ended Children of iterator.rs: cursors next and next_back,   *)
(* finished once next_back's next sibling is next.                         *)
(* A test that sees the end only when the backward cursor has run out.     *)
Children_finished_at_none(next, next_back) == next_back = None

Children_finished(next, next_back) ==
    IF next_back # None THEN next_sibling[next_back] = next ELSE TRUE

RECURSIVE Children_next_all(_, _, _)
Children_next_all(next, next_back, fuel) ==
    IF Children_finished(next, next_back) \/ next = None \/ fuel = 0 THEN <<>>
    ELSE <<next>> \o Children_next_all(next_sibling[next], next_back, fuel - 1)

RECURSIVE Children_next_back_all(_, _, _)
Children_next_back_all(next, next_back, fuel) ==
    IF Children_finished(next, next_back) \/ next_back = None \/ fuel = 0 THEN <<>>
    ELSE <<next_back>> \o
         Children_next_back_all(next, upgrade(Heap, previous_sibling[next_back]), fuel - 1)

ChildrenForward(p) == Children_next_all(first_child[p], upgrade(Heap, last_child[p]), Fuel)
ChildrenBackward(p) == Children_next_back_all(first_child[p], upgrade(Heap, last_child[p]), Fuel)

(* A node as Node::new leaves it and that no record links to.              *)
Fresh(c) ==
    /\ Live(c)
    /\ root[c] = None /\ parent[c] = None /\ first_child[c] = None
    /\ last_child[c] = None /\ previous_sibling[c] = None /\ next_sibling[c] = None
    /\ \A m \in LiveNodes : c \notin {first_child[m], next_sibling[m]}

Childless(p) == Live(p) /\ first_child[p] = None /\ upgrade(Heap, last_child[p]) = None

AppendedFresh(p, c) ==
    /\ last' = Call("append", p, c, "ok")
    /\ Fresh(c)

(* C4: a parent without children iterates to nothing, and every append of  *)
(* a fresh child c to p adds c at the end of p's forward children          *)
(* sequence and at the front of its backward one; so appending fresh       *)
(* C1..Cn to a childless P gives [C1..Cn] forward and [Cn..C1] backward,   *)
(* with the iterators of lib.rs and with the double-ended one.             *)
C4_AppendOrder ==
    /\ [](\A p \in NodeId : Childless(p) =>
            /\ Children(p) = <<>> /\ ReverseChildren(p) = <<>>
            /\ ChildrenForward(p) = <<>> /\ ChildrenBackward(p) = <<>>)
    /\ [][\A p \in NodeId, c \in NodeId : AppendedFresh(p, c) =>
            /\ Children(p)' = Children(p) \o <<c>>
            /\ ReverseChildren(p)' = <<c>> \o ReverseChildren(p)
            /\ ChildrenForward(p)' = ChildrenForward(p) \o <<c>>
            /\ ChildrenBackward(p)' = <<c>> \o ChildrenBackward(p)]_vars

C4_Witness ==
    /\ last.op = "append" /\ last.result = "ok"
    /\ Len(Children(last.self)) = 2
    /\ Children(last.self)[2] = last.arg
    /\ ReverseChildren(last.self) = <<Children(last.self)[2], Children(last.self)[1]>>
    /\ ChildrenBackward(last.self) = ReverseChildren(last.self)


C2_Witness ==
    /\ last.op = "insert_after" /\ last.result = "ok"
    /\ next_sibling[last.self] = last.arg
    /\ upgrade(Heap, previous_sibling[last.arg]) = last.self
    /\ upgrade(Heap, parent[last.arg]) # None
    /\ upgrade(Heap, last_child[upgrade(Heap, parent[last.arg])]) = last.arg

C3_Witness ==
    /\ last.op = "prepend" /\ last.result = "ok"
    /\ first_child[last.self] = last.arg
    /\ next_sibling[last.arg] # None
    /\ upgrade(Heap, last_child[last.self]) = next_sibling[last.arg]

(***************************************************************************)
(* Relocation, failure and self-insertion.                                 *)
(***************************************************************************)
NoAccessorOpen == \A n \in NodeId : bstate[n] = 0

(* x has a parent or a sibling, or some record links to it.                *)
Attached(x) ==
    \/ upgrade(Heap, parent[x]) # None
    \/ upgrade(Heap, previous_sibling[x]) # None
    \/ next_sibling[x] # None
    \/ \E m \in LiveNodes : x \in {first_child[m], next_sibling[m]}

(* x is where the call op on t puts it.                                    *)
AtPosition(op, t, x) ==
    CASE op = "append" -> upgrade(Heap, last_child[t]) = x /\ upgrade(Heap, parent[x]) = t
      [] op = "prepend" -> first_child[t] = x /\ upgrade(Heap, parent[x]) = t
      [] op = "insert_after" -> next_sibling[t] = x /\ upgrade(Heap, previous_sibling[x]) = t
      [] op = "insert_before" -> next_sibling[x] = t /\ upgrade(Heap, previous_sibling[t]) = x
      [] OTHER -> FALSE

ArgumentInPlace == AtPosition(last.op, last.self, last.arg)

(* C5: append, prepend, insert_before and insert_after relocate an already *)
(* attached node x (distinct from the target t, no payload accessor open)  *)
(* in one call: the call completes without BorrowConflict and x ends at    *)
(* the requested position.                                                 *)
C5_RelocateInOneCall ==
    [][(/\ last'.op \in InsertOps
        /\ last'.self # last'.arg
        /\ NoAccessorOpen
        /\ Attached(last'.arg))
       => (/\ last'.result = "ok"
           /\ ArgumentInPlace')]_vars

(* C6: a mutation call that fails (self-insertion or BorrowConflict) has   *)
(* changed no link of any record.                                          *)
C6_AllOrNothing ==
    [][(last'.op \in MutationOps /\ last'.result \in {"SelfInsertion", "BorrowConflict"})
       => links' = links]_vars

(* C7: append, prepend, insert_before and insert_after called on a node    *)
(* with that same node as argument fail with the self-insertion violation, *)
(* in every state, and leave all links unchanged.                          *)
C7_SelfInsertionFails ==
    [][(last'.op \in InsertOps /\ last'.self = last'.arg)
       => (last'.result = "SelfInsertion" /\ links' = links /\ life' = life)]_vars

C7_Witness ==
    /\ last.op = "insert_before" /\ last.self = last.arg
    /\ last.result = "SelfInsertion"
    /\ upgrade(Heap, parent[last.self]) # None
    /\ first_child[last.self] # None

(***************************************************************************)
(* detach and root.                                                        *)
(***************************************************************************)
(* The records below n: its children and everything below them.            *)
Below(n) == StrongClosure({first_child[n]} \ {None})

Without(seq, n) == SelectSeq(seq, LAMBDA x : x # n)

Detached(n) == last' = Call("detach", n, None, "ok")

(* C8: detach(n) removes only n from its parent/sibling chain: n then      *)
(* reports no parent and no siblings, the children of n's former parent    *)
(* are the former ones without n in the same order, and the children of n  *)
(* and every link below n are unchanged.                                   *)
C8_DetachFrame ==
    [][\A n \in NodeId : Detached(n) =>
         /\ Node_parent(n)' = Ok(None)
         /\ Node_previous_sibling(n)' = Ok(None)
         /\ Node_next_sibling(n)' = Ok(None)
         /\ \A p \in NodeId :
                p = upgrade(Heap, parent[n]) => Children(p)' = Without(Children(p), n)
         /\ Children(n)' = Children(n)
         /\ \A m \in Below(n) :
                /\ parent'[m] = parent[m] /\ first_child'[m] = first_child[m]
                /\ last_child'[m] = last_child[m] /\ next_sibling'[m] = next_sibling[m]
                /\ previous_sibling'[m] = previous_sibling[m] /\ root'[m] = root[m]]_vars

(* From a state without strong cycle the frame of detach holds.            *)
DetachFrameOnForest ==
    [][\A n \in NodeId :
         (Detached(n) /\ \A k \in LiveNodes : k \notin StronglyReaches(k)) =>
         /\ Node_parent(n)' = Ok(None)
         /\ Node_previous_sibling(n)' = Ok(None)
         /\ Node_next_sibling(n)' = Ok(None)
         /\ \A p \in NodeId :
                p = upgrade(Heap, parent[n]) => Children(p)' = Without(Children(p), n)
         /\ Children(n)' = Children(n)
         /\ \A m \in Below(n) :
                /\ parent'[m] = parent[m] /\ first_child'[m] = first_child[m]
                /\ last_child'[m] = last_child[m] /\ next_sibling'[m] = next_sibling[m]
                /\ previous_sibling'[m] = previous_sibling[m] /\ root'[m] = root[m]]_vars

(* C9: after detach(n) of a node that was attached under a parent,         *)
(* n.root() returns n.                                                     *)
C9_DetachedIsOwnRoot ==
    [][\A n \in NodeId : (Detached(n) /\ upgrade(Heap, parent[n]) # None)
         => Node_root(n)' = Ok(n)]_vars

(* The node reached from n by parent links until a node without parent.    *)
RECURSIVE top_by_parents(_, _)
top_by_parents(n, fuel) ==
    IF upgrade(Heap, parent[n]) = None \/ fuel = 0 THEN n
    ELSE top_by_parents(upgrade(Heap, parent[n]), fuel - 1)

(* C10: after any sequence of completed mutation calls, for every live     *)
(* node n, n.root() is the node reached from n by following parent links   *)
(* until a node with no parent.                                            *)
C10_RootIsTop ==
    Running => \A n \in LiveNodes : Node_root(n) = Ok(top_by_parents(n, Records))

(***************************************************************************)
(* Dangling weak links.                                                    *)
(***************************************************************************)
(* The weak link w is set and its target has been destroyed.               *)
dangling(w) == w # None /\ upgrade(Heap, w) = None

HasDanglingLink(n) ==
    \/ dangling(root[n]) \/ dangling(parent[n])
    \/ dangling(last_child[n]) \/ dangling(previous_sibling[n])

(* C11: for every live node n one of whose weak links (parent, previous    *)
(* sibling, last child, cached root) points to a destroyed record, each of *)
(* the six navigation accessors returns an ordinary result and never       *)
(* fails: absent through a dangling link, the node itself for root() with  *)
(* a dangling root.                                                        *)
C11_DanglingIsBenign ==
    Running =>
        \A n \in LiveNodes : HasDanglingLink(n) =>
            /\ \A f \in AccessorNames : Accessor(f, n).status = "ok"
            /\ dangling(parent[n]) => Node_parent(n) = Ok(None)
            /\ dangling(last_child[n]) => Node_last_child(n) = Ok(None)
            /\ dangling(previous_sibling[n]) => Node_previous_sibling(n) = Ok(None)
            /\ dangling(root[n]) => Node_root(n) = Ok(n)

(***************************************************************************)
(* Payload accessors.                                                      *)
(***************************************************************************)
(* The access state of record n, read from the accessors open on it.       *)
Free(n) == accessors[n].ref = 0 /\ accessors[n].ref_mut = 0
Shared(n) == accessors[n].ref >= 1 /\ accessors[n].ref_mut = 0
Exclusive(n) == accessors[n].ref = 0 /\ accessors[n].ref_mut = 1

(* C12: every record is Free, Shared(k) with k >= 1 or Exclusive, so no    *)
(* exclusive accessor is ever open together with another accessor; borrow  *)
(* succeeds exactly from Free or Shared and adds one shared accessor;      *)
(* borrow_mut succeeds exactly from Free; every other acquisition fails    *)
(* with BorrowConflict and opens nothing.                                  *)
C12_AccessStates ==
    /\ [](\A n \in NodeId : Free(n) \/ Shared(n) \/ Exclusive(n))
    /\ [][\A n \in NodeId :
            /\ (last'.op = "borrow" /\ last'.self = n) =>
                  IF Free(n) \/ Shared(n)
                  THEN /\ last'.result = "ok"
                       /\ accessors'[n].ref = accessors[n].ref + 1
                       /\ accessors'[n].ref_mut = 0
                  ELSE last'.result = "BorrowConflict" /\ accessors' = accessors
            /\ (last'.op = "borrow_mut" /\ last'.self = n) =>
                  IF Free(n)
                  THEN last'.result = "ok" /\ Exclusive(n)'
                  ELSE last'.result = "BorrowConflict" /\ accessors' = accessors]_vars

C12_Witness ==
    /\ last = Call("borrow_mut", last.self, None, "BorrowConflict")
    /\ last.self \in NodeId
    /\ accessors[last.self].ref = 2

(***************************************************************************)
(* Traverse and Descendants.  An iterator is a value; a step reads the     *)
(* current structure through the navigation accessors, so it panics where  *)
(* they do.                                                                *)
(***************************************************************************)
(* A walk that leaves a node for its parent without visiting the next      *)
(* sibling.                                                                *)
next_item_skipping_siblings(item, r) ==
    IF item.edge = "Start"
    THEN LET fc == Node_first_child(item.node) IN
         IF fc.status # "ok" THEN Panic(fc.status)
         ELSE IF fc.value # None THEN Ok(Start(fc.value))
         ELSE Ok(End(item.node))
    ELSE IF same_node(item.node, r) THEN Ok(NoEdge)
    ELSE LET pa == Node_parent(item.node) IN
         IF pa.status # "ok" THEN Panic(pa.status)
         ELSE IF pa.value # None THEN Ok(End(pa.value))
         ELSE Ok(NoEdge)

(* A step that fails where a node below the root has no parent left.       *)
next_item_unwrapping_parent(item, r) ==
    IF item.edge = "Start"
    THEN LET fc == Node_first_child(item.node) IN
         IF fc.status # "ok" THEN Panic(fc.status)
         ELSE IF fc.value # None THEN Ok(Start(fc.value))
         ELSE Ok(End(item.node))
    ELSE IF same_node(item.node, r) THEN Ok(NoEdge)
    ELSE LET ns == Node_next_sibling(item.node) IN
         IF ns.status # "ok" THEN Panic(ns.status)
         ELSE IF ns.value # None THEN Ok(Start(ns.value))
         ELSE LET pa == Node_parent(item.node) IN
              IF pa.status # "ok" THEN Panic(pa.status)
              ELSE IF pa.value # None THEN Ok(End(pa.value))
              ELSE Panic("UnwrapNone")

(* A walk that leaves a node without children for what follows it, its     *)
(* End edge left out.                                                      *)
next_item_without_leaf_end(item, r) ==
    LET after_end ==
            IF same_node(item.node, r) THEN Ok(NoEdge)
            ELSE LET ns == Node_next_sibling(item.node) IN
                 IF ns.status # "ok" THEN Panic(ns.status)
                 ELSE IF ns.value # None THEN Ok(Start(ns.value))
                 ELSE LET pa == Node_parent(item.node) IN
                      IF pa.status # "ok" THEN Panic(pa.status)
                      ELSE IF pa.value # None THEN Ok(End(pa.value))
                      ELSE Ok(NoEdge)
    IN  IF item.edge = "Start"
        THEN LET fc == Node_first_child(item.node) IN
             IF fc.status # "ok" THEN Panic(fc.status)
             ELSE IF fc.value # None THEN Ok(Start(fc.value))
             ELSE after_end
        ELSE after_end

(* The edge after item in a walk of the subtree of r: the match inside     *)
(* Traverse::next (NodeEdge::next_item in iterator.rs).                    *)
next_item(item, r) ==
    IF item.edge = "Start"
    THEN LET fc == Node_first_child(item.node) IN
         IF fc.status # "ok" THEN Panic(fc.status)
         ELSE IF fc.value # None THEN Ok(Start(fc.value))
         ELSE Ok(End(item.node))
    ELSE IF same_node(item.node, r) THEN Ok(NoEdge)
    ELSE LET ns == Node_next_sibling(item.node) IN
         IF ns.status # "ok" THEN Panic(ns.status)
         ELSE IF ns.value # None THEN Ok(Start(ns.value))
         ELSE LET pa == Node_parent(item.node) IN
              IF pa.status # "ok" THEN Panic(pa.status)
              ELSE IF pa.value # None THEN Ok(End(pa.value))
              ELSE Ok(NoEdge)

(* Node::traverse.                                                         *)
Node_traverse(n) == [root |-> n, next |-> Start(n)]

(* Traverse::next: the item yielded (NoEdge for none) and the iterator     *)
(* afterwards.                                                             *)
Traverse_next(it) ==
    IF it.next = NoEdge THEN [status |-> "ok", item |-> NoEdge, it |-> it]
    ELSE LET r == next_item(it.next, it.root) IN
         IF r.status # "ok"
         THEN [status |-> r.status, item |-> NoEdge, it |-> [it EXCEPT !.next = NoEdge]]
         ELSE [status |-> "ok", item |-> it.next, it |-> [it EXCEPT !.next = r.value]]

(* A walk of 2 * Records + 1 steps that has not returned none has yielded  *)
(* some edge twice, and so never ends on an unchanged structure.           *)
TraverseFuel == 2 * Records + 1

(* Calling next until it returns none, panics, or fuel runs out: the items *)
(* yielded and how the walk ended ("ok", a panic, or "endless").           *)
RECURSIVE Traverse_run(_, _)
Traverse_run(it, fuel) ==
    LET r == Traverse_next(it) IN
    IF r.status # "ok" THEN [status |-> r.status, items |-> <<>>]
    ELSE IF r.item = NoEdge THEN [status |-> "ok", items |-> <<>>]
    ELSE IF fuel = 0 THEN [status |-> "endless", items |-> <<>>]
    ELSE LET rest == Traverse_run(r.it, fuel - 1) IN
         [status |-> rest.status, items |-> <<r.item>> \o rest.items]

Traverse(n) == Traverse_run(Node_traverse(n), TraverseFuel)

(* Descendants::next keeps the Start edges of the Traverse it wraps.       *)
RECURSIVE starts_of(_)
starts_of(items) ==
    IF items = <<>> THEN <<>>
    ELSE IF Head(items).edge = "Start" THEN <<Head(items).node>> \o starts_of(Tail(items))
    ELSE starts_of(Tail(items))

Descendants(n) ==
    LET t == Traverse(n) IN [status |-> t.status, nodes |-> starts_of(t.items)]

(* The walk of the subtree of s read off the links: Start(s), the walks of *)
(* the children of s in sibling order, End(s).                             *)
RECURSIVE edges_of(_, _)
RECURSIVE edges_of_all(_, _)
edges_of(s, fuel) ==
    IF fuel = 0 THEN <<>>
    ELSE <<Start(s)>> \o edges_of_all(Children(s), fuel - 1) \o <<End(s)>>

edges_of_all(seq, fuel) ==
    IF seq = <<>> THEN <<>>
    ELSE edges_of(Head(seq), fuel) \o edges_of_all(Tail(seq), fuel)

Edges(s) == edges_of(s, Records)

(* s and the records below it.                                             *)
Subtree(s) == {s} \cup Below(s)

Forest == \A k \in LiveNodes : k \notin StronglyReaches(k)

(* The part of seq before the first x.                                     *)
RECURSIVE Before(_, _)
Before(seq, x) ==
    IF seq = <<>> \/ Head(seq) = x THEN <<>>
    ELSE <<Head(seq)>> \o Before(Tail(seq), x)

OnlyExclusiveIn(n, s) ==
    /\ Exclusive(n)
    /\ n \in Subtree(s)
    /\ \A m \in Subtree(s) \ {n} : ~Exclusive(m)

(* C13: while an exclusive accessor is open on n, each navigation accessor *)
(* on n fails with BorrowConflict, and a traverse or descendants walk that *)
(* reaches n yields what comes before n and then fails with BorrowConflict *)
(* at the step that reads n; with only shared accessors open on n the      *)
(* accessors return a value, and a walk of a subtree without exclusive     *)
(* accessor does not fail.                                                 *)
C13_ConflictOnRead ==
    Running =>
        /\ \A n \in LiveNodes : Exclusive(n) =>
              \A f \in AccessorNames : Accessor(f, n).status = "BorrowConflict"
        /\ \A n \in LiveNodes, s \in LiveNodes : (OnlyExclusiveIn(n, s) /\ Forest) =>
              /\ Traverse(s) = [status |-> "BorrowConflict",
                                items |-> Before(Edges(s), Start(n))]
              /\ Descendants(s) = [status |-> "BorrowConflict",
                                   nodes |-> starts_of(Before(Edges(s), Start(n)))]
        /\ \A n \in LiveNodes : Shared(n) =>
              \A f \in AccessorNames : Accessor(f, n).status = "ok"
        /\ \A s \in LiveNodes : (\A m \in Subtree(s) : ~Exclusive(m)) =>
              Traverse(s).status \in {"ok", "endless"}

(* The same with root() left out where the cached root is dangling.        *)
ConflictOnReadButDanglingRoot ==
    Running =>
        /\ \A n \in LiveNodes : Exclusive(n) =>
              \A f \in AccessorNames : Accessor(f, n).status = "BorrowConflict"
        /\ \A n \in LiveNodes, s \in LiveNodes : (OnlyExclusiveIn(n, s) /\ Forest) =>
              /\ Traverse(s) = [status |-> "BorrowConflict",
                                items |-> Before(Edges(s), Start(n))]
              /\ Descendants(s) = [status |-> "BorrowConflict",
                                   nodes |-> starts_of(Before(Edges(s), Start(n)))]
        /\ \A n \in LiveNodes : Shared(n) =>
              \A f \in AccessorNames :
                  (f = "root" /\ dangling(root[n])) \/ Accessor(f, n).status = "ok"
        /\ \A s \in LiveNodes : (\A m \in Subtree(s) : ~Exclusive(m)) =>
              Traverse(s).status \in {"ok", "endless"}

(***************************************************************************)
(* Descendants on a static tree.                                           *)
(***************************************************************************)
(* s, then the subtrees of its children in sibling order.                  *)
RECURSIVE pre_order(_, _)
RECURSIVE pre_order_all(_, _)
pre_order(s, fuel) ==
    IF fuel = 0 THEN <<>>
    ELSE <<s>> \o pre_order_all(Children(s), fuel - 1)

pre_order_all(seq, fuel) ==
    IF seq = <<>> THEN <<>>
    ELSE pre_order(Head(seq), fuel) \o pre_order_all(Tail(seq), fuel)

PreOrder(s) == pre_order(s, Records)

Range(seq) == {seq[i] : i \in 1..Len(seq)}

(* C14: on a tree (no strong cycle) that is not changed during the walk,   *)
(* descendants() seeded at any node s ends and yields s first, then every  *)
(* node of the subtree of s exactly once, in pre-order, and nothing        *)
(* outside that subtree; in it_works after the detach, the descendants of  *)
(* node 5 are 5, 6, 7, 1, 4, 2, 3, 9, 10.                                  *)
C14_DescendantsPreOrder ==
    (Running /\ Forest) =>
        /\ \A s \in LiveNodes :
              LET d == Descendants(s) IN
              /\ d.status = "ok"
              /\ d.nodes = PreOrder(s)
              /\ d.nodes[1] = s
              /\ Range(d.nodes) = Subtree(s)
              /\ Len(d.nodes) = Cardinality(Subtree(s))
        /\ pc = ItWorksDetached =>
              Descendants(5) = [status |-> "ok", nodes |-> <<5, 6, 7, 1, 4, 2, 3, 9, 10>>]

C14_Witness ==
    /\ pc = ItWorksDetached
    /\ Descendants(1).nodes = <<1, 4, 2, 3>>
    /\ upgrade(Heap, parent[1]) = 5
    /\ upgrade(Heap, previous_sibling[1]) = 7 /\ next_sibling[1] = 9

(***************************************************************************)
(* Copies.                                                                 *)
(***************************************************************************)
(* The shape of the subtree of s with the payload at each position: its    *)
(* walk with every node replaced by its payload.                           *)
Shape(s) == [i \in 1..Len(Edges(s)) |-> <<Edges(s)[i].edge, data[Edges(s)[i].node]>>]

(* Every link of record m.                                                 *)
LinksOf(m) ==
    <<root[m], parent[m], first_child[m], last_child[m], previous_sibling[m], next_sibling[m]>>

DeepCopied(n, c) == last' = Call("make_deep_copy", n, c, "ok")

(* C15: make_deep_copy(n) returns the root c of a tree with the shape of   *)
(* the subtree of n: the same walk, with an equal payload at each          *)
(* position; c has no parent and no siblings; the records of the copy are  *)
(* new, none is shared with the source and none of their links leaves the  *)
(* copy; and every link of every record that existed is unchanged.         *)
C15_DeepCopy ==
    [][\A n \in NodeId, c \in NodeId : DeepCopied(n, c) =>
         /\ Shape(c)' = Shape(n)
         /\ Node_parent(c)' = Ok(None)
         /\ Node_previous_sibling(c)' = Ok(None)
         /\ Node_next_sibling(c)' = Ok(None)
         /\ ~Attached(c)'
         /\ \A m \in Subtree(c)' :
                /\ life[m] = "unborn"
                /\ m \notin Subtree(n)'
                /\ \A k \in Range(LinksOf(m)') : k \in Subtree(c)' \cup {None}
         /\ \A m \in NodeId : life[m] # "unborn" =>
                LinksOf(m)' = LinksOf(m) /\ life'[m] = life[m] /\ data'[m] = data[m]]_vars

C15_Witness ==
    /\ last.op = "make_deep_copy" /\ last.result = "ok"
    /\ upgrade(Heap, parent[last.self]) # None
    /\ Len(Edges(last.arg)) = 4
    /\ Shape(last.arg) = Shape(last.self)
    /\ data[first_child[last.arg]] = first_child[last.self]

Copied(n, c) == last' = Call("make_copy", n, c, "ok")

(* C16: make_copy(n) returns a new record c, not n, with the payload of n  *)
(* and no parent, no siblings and no children, whatever the position and   *)
(* the children of n; n and every link of every record that existed are    *)
(* unchanged.                                                              *)
C16_Copy ==
    [][\A n \in NodeId, c \in NodeId : Copied(n, c) =>
         /\ ~same_node(c, n)
         /\ life[c] = "unborn" /\ Live(c)'
         /\ data'[c] = data[n]
         /\ Node_parent(c)' = Ok(None)
         /\ Node_previous_sibling(c)' = Ok(None)
         /\ Node_next_sibling(c)' = Ok(None)
         /\ Node_first_child(c)' = Ok(None)
         /\ Node_last_child(c)' = Ok(None)
         /\ ~Attached(c)'
         /\ \A m \in NodeId : life[m] # "unborn" =>
                LinksOf(m)' = LinksOf(m) /\ life'[m] = life[m] /\ data'[m] = data[m]]_vars

C16_Witness ==
    /\ last.op = "make_copy" /\ last.result = "ok"
    /\ upgrade(Heap, parent[last.self]) # None
    /\ first_child[last.self] # None
    /\ data[last.arg] = data[last.self]
    /\ LinksOf(last.arg) = <<None, None, None, None, None, None>>

(***************************************************************************)
(* Destruction.                                                            *)
(***************************************************************************)
Constructed == {n \in NodeId : life[n] # "unborn"}
Destroyed == {n \in NodeId : life[n] = "dead"}

(* C17: once the program holds no Node handle, every record ever           *)
(* constructed has been destroyed; at the end of it_works, 10 of 10.       *)
C17_NoLeak ==
    /\ (Running /\ held = {}) => Destroyed = Constructed
    /\ pc = ItWorksEnd => Cardinality(Constructed) = 10 /\ Cardinality(Destroyed) = 10

(* Without a handle, what is left alive lies on a strong cycle or below    *)
(* one; it_works leaves nothing.                                           *)
NoLeakButCycles ==
    /\ (Running /\ held = {}) =>
          \A n \in LiveNodes : \E k \in LiveNodes :
              k \in StronglyReaches(k) /\ n \in StronglyReaches(k)
    /\ pc = ItWorksEnd => Cardinality(Constructed) = 10 /\ Cardinality(Destroyed) = 10


(***************************************************************************)
(* Detaching a node the caller keeps no handle to: the call is made on a   *)
(* temporary handle, which is dropped when the call has returned (it_works *)
(* line 42).                                                               *)
(***************************************************************************)
(* The step that drops the handle of n right after detach(n) completed.    *)
TemporaryDropped(n) ==
    /\ last = Call("detach", n, None, "ok")
    /\ n \in held
    /\ held' = held \ {n}
    /\ last' = NoCall

(* The records reachable through strong links from a handle of hs.         *)
KeptBy(hs) == hs \cup UNION {StronglyReaches(k) : k \in hs}

OwnedBy(n) == {n} \cup StronglyReaches(n)

(* No record reaches itself through strong links.                          *)
Acyclic == \A k \in LiveNodes : k \notin StronglyReaches(k)

RECURSIVE Walk(_, _, _)
Walk(f, cursor, fuel) ==
    IF cursor = None THEN "ok"
    ELSE IF fuel = 0 THEN "endless"
    ELSE LET r == Accessor(f, cursor) IN
         IF r.status # "ok" THEN r.status ELSE Walk(f, r.value, fuel - 1)

(* Node::ancestors, preceding_siblings and following_siblings start at the *)
(* node itself; Node::children at first_child().                           *)
Ancestors(n) == Walk("parent", n, Fuel)
PrecedingSiblings(n) == Walk("previous_sibling", n, Fuel)
FollowingSiblings(n) == Walk("next_sibling", n, Fuel)
ChildrenWalk(n) ==
    LET fc == Node_first_child(n) IN
    IF fc.status # "ok" THEN fc.status ELSE Walk("next_sibling", fc.value, Fuel)

(* How each of the six iterators of n ends.                                *)
IteratorEnds(n) ==
    {Ancestors(n), PrecedingSiblings(n), FollowingSiblings(n), ChildrenWalk(n),
     Descendants(n).status, Traverse(n).status}

(* C19: on every structure reachable by completed mutation calls, and not  *)
(* changed during the walk, ancestors, preceding_siblings,                 *)
(* following_siblings, children, descendants and traverse of every node    *)
(* return none after finitely many steps.                                  *)
C19_IteratorsFinite ==
    Running => \A n \in LiveNodes : IteratorEnds(n) = {"ok"}

(* The same for structures without strong cycle.                           *)
IteratorsFiniteOnForest ==
    (Running /\ Acyclic) => \A n \in LiveNodes : IteratorEnds(n) = {"ok"}


(***************************************************************************)
(* A walk interleaved with mutation: the program holds one Traverse or     *)
(* Descendants iterator, calls next on it between its other calls, and     *)
(* drops each item as soon as it has it.                                   *)
(***************************************************************************)
(* Descendants::next: Traverse::next until it yields a Start edge or none. *)
RECURSIVE Descendants_next(_, _)
Descendants_next(it, fuel) ==
    LET r == Traverse_next(it) IN
    IF r.status # "ok" \/ r.item = NoEdge \/ r.item.edge = "Start" THEN r
    ELSE IF fuel = 0 THEN [status |-> "endless", item |-> NoEdge, it |-> r.it]
    ELSE Descendants_next(r.it, fuel - 1)

(* What last holds after a call of next that returned item.                *)
NextOps == {"next Start", "next End", "next None"}
NextOp(item) ==
    CASE item.edge = "Start" -> "next Start"
      [] item.edge = "End" -> "next End"
      [] OTHER -> "next None"

(* n.traverse() or n.descendants(), the iterator kept.                     *)
Node_iterate(kind, n) ==
    /\ Running /\ pc = 0
    /\ n \in held
    /\ walk = NoWalk
    /\ walk' = [kind |-> kind, it |-> Node_traverse(n)]
    /\ last' = NoCall
    /\ UNCHANGED <<links, life, data, held, bstate, accessors, calls, pc>>

(* next() on the iterator held.                                            *)
Walk_next ==
    /\ Running /\ pc = 0
    /\ walk.kind # "none"
    /\ LET r == IF walk.kind = "traverse" THEN Traverse_next(walk.it)
                ELSE Descendants_next(walk.it, TraverseFuel)
       IN  /\ walk' = [walk EXCEPT !.it = r.it]
           /\ Commit(drop_dead(Heap, held \cup ({r.it.root, r.it.next.node} \ {None})))
           /\ last' = Call(NextOp(r.item), walk.it.root, r.item.node, r.status)
    /\ UNCHANGED <<held, bstate, accessors, calls, pc>>

(* Dropping the iterator.                                                  *)
Walk_drop ==
    /\ Running /\ pc = 0
    /\ walk # NoWalk
    /\ walk' = NoWalk
    /\ Commit(drop_dead(Heap, held))
    /\ last' = NoCall
    /\ UNCHANGED <<held, bstate, accessors, calls, pc>>

NextWalk ==
    \/ Node_new
    \/ \E n \in NodeId : DropHandle(n)
    \/ \E n \in NodeId : Node_detach(n)
    \/ \E n \in NodeId, x \in NodeId : Node_append(n, x)
    \/ \E n \in NodeId, x \in NodeId : Node_prepend(n, x)
    \/ \E n \in NodeId, x \in NodeId : Node_insert_after(n, x)
    \/ \E n \in NodeId, x \in NodeId : Node_insert_before(n, x)
    \/ \E n \in NodeId, f \in AccessorNames : Navigate(n, f)
    \/ \E n \in NodeId : Node_iterate("traverse", n)
    \/ \E n \in NodeId : Node_iterate("descendants", n)
    \/ Walk_next
    \/ Walk_drop

SpecWalk == InitWith(1..MaxNodes, 0) /\ [][NextWalk]_vars

(* The iterator is about to yield End(n) for a node n that is not its root *)
(* and has neither a next sibling nor a parent that resolves.              *)
Orphaned(n) ==
    /\ walk.kind # "none"
    /\ walk.it.next = End(n)
    /\ ~same_node(n, walk.it.root)
    /\ Node_next_sibling(n) = Ok(None)
    /\ Node_parent(n) = Ok(None)

(* C20: when the tree was changed between two steps of a Traverse or       *)
(* Descendants walk (no accessor open) so that the current End node is not *)
(* the root of the walk and has neither next sibling nor resolvable        *)
(* parent, the next step does not fail and ends the iteration: the edge    *)
(* after End(n) is none, so Descendants::next returns none, and            *)
(* Traverse::next hands out the pending End(n) and returns none from then  *)
(* on.                                                                     *)
C20_OrphanEndsWalk ==
    [][\A n \in NodeId :
          (Orphaned(n) /\ NoAccessorOpen /\ last'.op \in NextOps) =>
              /\ next_item(End(n), walk.it.root) = Ok(NoEdge)
              /\ last'.result = "ok"
              /\ walk'.it.next = NoEdge
              /\ Traverse_next(walk.it)' = [status |-> "ok", item |-> NoEdge, it |-> walk'.it]
              /\ walk.kind = "traverse" => last' = Call("next End", walk.it.root, n, "ok")
              /\ walk.kind = "descendants" => last' = Call("next None", walk.it.root, None, "ok")]_vars

(* A Traverse of node r stood at Start(n) or End(n) of a child n of r when *)
(* n was detached; the step after the detach has handed out End(n), and    *)
(* the walk is over without End(r).                                        *)
C20_Witness ==
    /\ Running /\ walk.kind = "traverse"
    /\ last.op = "next End" /\ last.self = walk.it.root /\ last.arg # last.self
    /\ walk.it.next = NoEdge
    /\ Live(last.arg)
    /\ Node_next_sibling(last.arg) = Ok(None)
    /\ Node_parent(last.arg) = Ok(None)

(***************************************************************************)
(* Destruction step by step.  NodeData has no Drop impl, so a record is    *)
(* destroyed by the drop glue of its fields, in declaration order: the     *)
(* strong first_child, then the strong next_sibling, each of which drops   *)
(* the record it points to, from inside the drop of this one, when it was  *)
(* the last strong reference to it.                                        *)
(***************************************************************************)
(* Every link of n cleared and n destroyed.                                *)
destroy_record(h, n) ==
    [h EXCEPT !.life[n] = "dead", !.root[n] = None, !.parent[n] = None,
              !.first_child[n] = None, !.last_child[n] = None,
              !.previous_sibling[n] = None, !.next_sibling[n] = None]

(* Rc::drop of a strong reference to n that has just been taken out of h   *)
(* or of handles: the heap afterwards, and the number of nested            *)
(* drop_in_place::<NodeData> frames it took.                                *)
RECURSIVE drop_rc(_, _, _)
drop_rc(h, n, handles) ==
    IF n = None \/ h.life[n] # "live" \/ strong_count(h, n, handles) > 0
    THEN [heap |-> h, depth |-> 0]
    ELSE LET r1 == drop_rc([h EXCEPT !.first_child[n] = None], h.first_child[n], handles)
             r2 == drop_rc([r1.heap EXCEPT !.next_sibling[n] = None], h.next_sibling[n], handles)
         IN  [heap |-> destroy_record(r2.heap, n),
              depth |-> 1 + (IF r1.depth >= r2.depth THEN r1.depth ELSE r2.depth)]

(* The step is the program's handle to n going out of scope.               *)
HandleDropped(n) == n \in held /\ held' = held \ {n} /\ last' = NoCall

(* n heads a chain of only children that this handle alone keeps alive: no *)
(* record links to n, no record of the chain has a sibling, and no other   *)
(* record of the chain is held.                                            *)
HeadsChain(n) ==
    /\ Live(n)
    /\ \A m \in LiveNodes : n \notin StrongSucc(m)
    /\ \A m \in OwnedBy(n) : next_sibling[m] = None
    /\ OwnedBy(n) \cap Handles = {n}
    /\ n \notin WalkHandles

(* C21: dropping the last handle to a node that heads a single-child chain *)
(* frees every record of the chain, and the nesting of destructor frames   *)
(* does not grow with the length of the chain: it stays within the two     *)
(* frames of a destructor that flattens (its own and that of one           *)
(* flattened record).                                                      *)
C21_FlatDrop ==
    [][\A n \in NodeId : (HandleDropped(n) /\ HeadsChain(n)) =>
          /\ Destroyed' \ Destroyed = OwnedBy(n)
          /\ drop_rc(Heap, n, Handles \ {n}).depth <= 2]_vars

(* What the drop glue does: every record of the chain is freed, one frame  *)
(* inside the other, as many frames as the chain has records.              *)
DropDepthIsChainLength ==
    [][\A n \in NodeId : (HandleDropped(n) /\ HeadsChain(n)) =>
          /\ Destroyed' \ Destroyed = OwnedBy(n)
          /\ drop_rc(Heap, n, Handles \ {n}).depth = Cardinality(OwnedBy(n))]_vars

(* The drop glue destroys the records drop_dead does.                      *)
DropGlueAgrees ==
    [][\A n \in NodeId : HandleDropped(n) =>
          drop_rc(Heap, n, Handles \ {n}).heap.life = life']_vars

(***************************************************************************)
(* prepend, insert_after and insert_before: where a completed call leaves  *)
(* its argument.                                                           *)
(***************************************************************************)
Prepended(p, c) == last' = Call("prepend", p, c, "ok")

(* C22: every prepend(p, c) with c distinct from p that returns has made c *)
(* the first child of p: p.first_child is c, c has no previous sibling,    *)
(* c.next_sibling is p's former first child, whose previous_sibling now    *)
(* resolves to c, c.parent resolves to p, the former children follow c in  *)
(* their former order, and p.last_child is c when p had no children and is *)
(* what it was otherwise.                                                  *)
C22_Prepend ==
    [][\A p \in NodeId, c \in NodeId : (Prepended(p, c) /\ ~same_node(c, p)) =>
          /\ Node_first_child(p)' = Ok(c)
          /\ Node_previous_sibling(c)' = Ok(None)
          /\ Node_next_sibling(c)' = Node_first_child(p)
          /\ \A f \in NodeId : f = first_child[p] => Node_previous_sibling(f)' = Ok(c)
          /\ Node_parent(c)' = Ok(p)
          /\ Children(p)' = <<c>> \o Without(Children(p), c)
          /\ Node_last_child(p)' = IF first_child[p] = None THEN Ok(c)
                                   ELSE Node_last_child(p)]_vars

(* it_works line 31: node 4 prepended to node 1, before its children 2     *)
(* and 3.                                                                  *)
C22_Witness ==
    /\ last = Call("prepend", 1, 4, "ok")
    /\ Children(1) = <<4, 2, 3>>
    /\ Node_previous_sibling(2) = Ok(4)
    /\ Node_last_child(1) = Ok(3)
    /\ Node_parent(4) = Ok(1)

InsertedAfter(n, s) == last' = Call("insert_after", n, s, "ok")

InsertedBefore(n, s) == last' = Call("insert_before", n, s, "ok")

(* What a completed insert_before(n, s) leaves: s.next_sibling is n,       *)
(* n.previous_sibling resolves to s, s.previous_sibling resolves to n's    *)
(* former previous sibling, whose next_sibling is s, s.parent is n.parent, *)
(* and the parent of which n was the first child has s as first child.     *)
(* (A former previous sibling or parent that the call destroyed, because   *)
(* the detach of s took away the only strong link that kept it, is left    *)
(* out.)                                                                   *)
Spliced(n, s) ==
    /\ Node_next_sibling(s)' = Ok(n)
    /\ Node_previous_sibling(n)' = Ok(s)
    /\ \A y \in NodeId : (Node_previous_sibling(n) = Ok(y) /\ Live(y)') =>
          Node_previous_sibling(s)' = Ok(y) /\ Node_next_sibling(y)' = Ok(s)
    /\ Node_previous_sibling(n) = Ok(None) => Node_previous_sibling(s)' = Ok(None)
    /\ Node_parent(s)' = Node_parent(n)'
    /\ \A p \in NodeId :
          (Node_parent(n) = Ok(p) /\ Node_first_child(p) = Ok(n) /\ Live(p)') =>
          Node_first_child(p)' = Ok(s) /\ Node_parent(s)' = Ok(p)

(* s is the sibling right before n.                                        *)
RightBefore(s, n) == Live(s) /\ Live(n) /\ next_sibling[s] = n /\ upgrade(Heap, previous_sibling[n]) = s

(* C24: every insert_before(n, s) with s distinct from n that returns has  *)
(* spliced s right before n, whether n has a parent or not; and s then     *)
(* stays alive as long as n is reachable: the drop of a handle after the   *)
(* call does not destroy s when a handle still reaches n.                  *)
C24_InsertBefore ==
    /\ [][\A n \in NodeId, s \in NodeId :
            (InsertedBefore(n, s) /\ ~same_node(s, n)) => Spliced(n, s)]_vars
    /\ [][\A n \in NodeId, s \in NodeId, h \in NodeId :
            (/\ last = Call("insert_before", n, s, "ok")
             /\ RightBefore(s, n)
             /\ HandleDropped(h)
             /\ n \in KeptBy(held)') => Live(s)']_vars

(* The splice alone.                                                       *)
InsertBeforeSplices ==
    [][\A n \in NodeId, s \in NodeId :
          (InsertedBefore(n, s) /\ ~same_node(s, n)) => Spliced(n, s)]_vars

(***************************************************************************)
(* Traverse on a static tree.                                              *)
(***************************************************************************)
(* The places of seq where x stands.                                       *)
Places(seq, x) == {i \in 1..Len(seq) : seq[i] = x}

(* The edges e are well nested for the subtree of r: every node of it has  *)
(* one Start and one End, the Start first, and the edges of the nodes      *)
(* below it lie strictly between the two.                                  *)
WellNested(e, r) ==
    \A n \in Subtree(r) :
        /\ Cardinality(Places(e, Start(n))) = 1
        /\ Cardinality(Places(e, End(n))) = 1
        /\ \A i \in Places(e, Start(n)), j \in Places(e, End(n)) :
              /\ i < j
              /\ \A m \in Below(n) :
                    \A k \in Places(e, Start(m)) \cup Places(e, End(m)) : i < k /\ k < j

(* Each edge of e but the last is followed by the edge the links give:     *)
(* after Start(n) the Start of n's first child or else End(n); after       *)
(* End(n) the Start of n's next sibling or else the End of n's parent.     *)
FollowsLinks(e, r) ==
    \A k \in 1..(Len(e) - 1) :
        LET n == e[k].node IN
        IF e[k].edge = "Start"
        THEN e[k + 1] = IF first_child[n] # None THEN Start(first_child[n]) ELSE End(n)
        ELSE /\ n # r
             /\ e[k + 1] = IF next_sibling[n] # None THEN Start(next_sibling[n])
                           ELSE End(upgrade(Heap, parent[n]))

(* C25: on a tree (no strong cycle) that is not changed during the walk,   *)
(* traverse() seeded at any node r ends and yields a well-nested edge      *)
(* sequence bounded by r: it begins with Start(r) and ends with End(r);    *)
(* every node of r's subtree has exactly one Start and one End, the Start  *)
(* first, with all edges of its descendants strictly between them; each    *)
(* edge is followed by the one the links give; and no node outside r's     *)
(* subtree is yielded.                                                     *)
C25_TraverseWellNested ==
    (Running /\ Forest) =>
        \A r \in LiveNodes :
            LET t == Traverse(r)
                e == t.items
            IN  /\ t.status = "ok"
                /\ Len(e) >= 2
                /\ e[1] = Start(r)
                /\ e[Len(e)] = End(r)
                /\ WellNested(e, r)
                /\ FollowsLinks(e, r)
                /\ \A k \in 1..Len(e) : e[k].node \in Subtree(r)
                /\ Len(e) = 2 * Cardinality(Subtree(r))
                /\ e = Edges(r)

(* it_works after line 42: the walk of node 1, which has a parent, two     *)
(* siblings before it and two after it, and three children.                *)
C25_Witness ==
    /\ pc = ItWorksDetached
    /\ Traverse(1) = [status |-> "ok",
                      items |-> <<Start(1), Start(4), End(4), Start(2), End(2),
                                  Start(3), End(3), End(1)>>]
    /\ Node_parent(1) = Ok(5)
    /\ Node_next_sibling(1) = Ok(9)

(***************************************************************************)
(* The double-ended Children of iterator.rs, called from both ends in any  *)
(* order on an unchanged structure with no accessor open.                  *)
(***************************************************************************)
Sides == {"next", "next_back"}

(* Children::new.                                                          *)
Children_new(p) == [next |-> first_child[p], next_back |-> upgrade(Heap, last_child[p])]

(* Children::next and Children::next_back: the item returned (None for     *)
(* none) and the iterator afterwards.                                      *)
Children_next(it) ==
    IF Children_finished(it.next, it.next_back) \/ it.next = None
    THEN [item |-> None, it |-> it]
    ELSE [item |-> it.next, it |-> [it EXCEPT !.next = next_sibling[it.next]]]

Children_next_back(it) ==
    IF Children_finished(it.next, it.next_back) \/ it.next_back = None
    THEN [item |-> None, it |-> it]
    ELSE [item |-> it.next_back,
          it |-> [it EXCEPT !.next_back = upgrade(Heap, previous_sibling[it.next_back])]]

Reverse(seq) == [i \in 1..Len(seq) |-> seq[Len(seq) + 1 - i]]

(* The calls of sched made in turn on it: what next returned in call       *)
(* order, what next_back returned in call order, how many calls returned   *)
(* none, and the iterator at the end.                                      *)
RECURSIVE Children_run(_, _)
Children_run(it, sched) ==
    IF sched = <<>> THEN [front |-> <<>>, back |-> <<>>, nones |-> 0, it |-> it]
    ELSE LET r == IF Head(sched) = "next" THEN Children_next(it) ELSE Children_next_back(it)
             rest == Children_run(r.it, Tail(sched))
         IN  IF r.item = None THEN [rest EXCEPT !.nones = @ + 1]
             ELSE IF Head(sched) = "next" THEN [rest EXCEPT !.front = <<r.item>> \o @]
             ELSE [rest EXCEPT !.back = <<r.item>> \o @]

(* C26: on a tree that is not changed meanwhile, for every order of calls  *)
(* of next() and next_back() on one double-ended Children iterator of a    *)
(* node with n >= 0 children, the first n calls each return a child, what  *)
(* next() returned in call order followed by what next_back() returned in  *)
(* reverse call order is the children sequence, each child once, and       *)
(* after these n calls both next() and next_back() return none.            *)
C26_ChildrenBothEnds ==
    (Running /\ Forest) =>
        \A p \in LiveNodes :
            LET n == Len(Children(p)) IN
            \A sched \in [1..(n + 1) -> Sides] :
                LET r == Children_run(Children_new(p), sched) IN
                /\ r.front \o Reverse(r.back) = Children(p)
                /\ r.nones = 1
                /\ Children_next(r.it).item = None
                /\ Children_next_back(r.it).item = None

(* it_works after line 42: the five children of node 5 taken from both     *)
(* ends in turn; the sixth call returns none.                              *)
C26_Witness ==
    /\ pc = ItWorksDetached
    /\ Children(5) = <<6, 7, 1, 9, 10>>
    /\ LET r == Children_run(Children_new(5),
                             <<"next", "next_back", "next", "next_back", "next", "next_back">>)
       IN  r.front = <<6, 7, 1>> /\ r.back = <<10, 9>> /\ r.nones = 1

(***************************************************************************)
(* Backward traversal: ReverseTraverse of lib.rs and the double-ended      *)
(* Traverse of iterator.rs, on an unchanged structure.                     *)
(***************************************************************************)
(* A backward step that enters a node at its first child.                  *)
previous_item_by_first_child(item, r) ==
    IF item.edge = "End"
    THEN LET fc == Node_first_child(item.node) IN
         IF fc.status # "ok" THEN Panic(fc.status)
         ELSE IF fc.value # None THEN Ok(End(fc.value))
         ELSE Ok(Start(item.node))
    ELSE IF same_node(item.node, r) THEN Ok(NoEdge)
    ELSE LET ps == Node_previous_sibling(item.node) IN
         IF ps.status # "ok" THEN Panic(ps.status)
         ELSE IF ps.value # None THEN Ok(End(ps.value))
         ELSE LET pa == Node_parent(item.node) IN
              IF pa.status # "ok" THEN Panic(pa.status)
              ELSE IF pa.value # None THEN Ok(Start(pa.value))
              ELSE Ok(NoEdge)

(* The edge before item in a walk of the subtree of r: the match inside    *)
(* ReverseTraverse::next (NodeEdge::previous_item in iterator.rs).         *)
previous_item(item, r) ==
    IF item.edge = "End"
    THEN LET lc == Node_last_child(item.node) IN
         IF lc.status # "ok" THEN Panic(lc.status)
         ELSE IF lc.value # None THEN Ok(End(lc.value))
         ELSE Ok(Start(item.node))
    ELSE IF same_node(item.node, r) THEN Ok(NoEdge)
    ELSE LET ps == Node_previous_sibling(item.node) IN
         IF ps.status # "ok" THEN Panic(ps.status)
         ELSE IF ps.value # None THEN Ok(End(ps.value))
         ELSE LET pa == Node_parent(item.node) IN
              IF pa.status # "ok" THEN Panic(pa.status)
              ELSE IF pa.value # None THEN Ok(Start(pa.value))
              ELSE Ok(NoEdge)

(* Node::reverse_traverse.                                                 *)
Node_reverse_traverse(n) == [root |-> n, next |-> End(n)]

(* ReverseTraverse::next.                                                  *)
ReverseTraverse_next(it) ==
    IF it.next = NoEdge THEN [status |-> "ok", item |-> NoEdge, it |-> it]
    ELSE LET r == previous_item(it.next, it.root) IN
         IF r.status # "ok"
         THEN [status |-> r.status, item |-> NoEdge, it |-> [it EXCEPT !.next = NoEdge]]
         ELSE [status |-> "ok", item |-> it.next, it |-> [it EXCEPT !.next = r.value]]

RECURSIVE ReverseTraverse_run(_, _)
ReverseTraverse_run(it, fuel) ==
    LET r == ReverseTraverse_next(it) IN
    IF r.status # "ok" THEN [status |-> r.status, items |-> <<>>]
    ELSE IF r.item = NoEdge THEN [status |-> "ok", items |-> <<>>]
    ELSE IF fuel = 0 THEN [status |-> "endless", items |-> <<>>]
    ELSE LET rest == ReverseTraverse_run(r.it, fuel - 1) IN
         [status |-> rest.status, items |-> <<r.item>> \o rest.items]

ReverseTraverse(n) == ReverseTraverse_run(Node_reverse_traverse(n), TraverseFuel)

(* Traverse::new of iterator.rs.                                           *)
Traverse_new(n) == [root |-> n, next |-> Start(n), next_back |-> End(n)]

(* Traverse::finished: next_back's next item is next.                      *)
Traverse_finished(it) ==
    IF it.next_back = NoEdge THEN Ok(TRUE)
    ELSE LET r == next_item(it.next_back, it.root) IN
         IF r.status # "ok" THEN Panic(r.status) ELSE Ok(r.value = it.next)

(* Traverse::next and Traverse::next_back of iterator.rs.                  *)
Traverse_next_front(it) ==
    LET f == Traverse_finished(it) IN
    IF f.status # "ok" THEN [status |-> f.status, item |-> NoEdge, it |-> it]
    ELSE IF f.value \/ it.next = NoEdge THEN [status |-> "ok", item |-> NoEdge, it |-> it]
    ELSE LET r == next_item(it.next, it.root) IN
         IF r.status # "ok"
         THEN [status |-> r.status, item |-> NoEdge, it |-> [it EXCEPT !.next = NoEdge]]
         ELSE [status |-> "ok", item |-> it.next, it |-> [it EXCEPT !.next = r.value]]

Traverse_next_back(it) ==
    LET f == Traverse_finished(it) IN
    IF f.status # "ok" THEN [status |-> f.status, item |-> NoEdge, it |-> it]
    ELSE IF f.value \/ it.next_back = NoEdge THEN [status |-> "ok", item |-> NoEdge, it |-> it]
    ELSE LET r == previous_item(it.next_back, it.root) IN
         IF r.status # "ok"
         THEN [status |-> r.status, item |-> NoEdge, it |-> [it EXCEPT !.next_back = NoEdge]]
         ELSE [status |-> "ok", item |-> it.next_back, it |-> [it EXCEPT !.next_back = r.value]]

(* The calls of sched made in turn on it: what next returned in call       *)
(* order, what next_back returned in call order, how many calls returned   *)
(* none, and the iterator at the end.                                      *)
RECURSIVE Traverse_both(_, _)
Traverse_both(it, sched) ==
    IF sched = <<>> THEN [front |-> <<>>, back |-> <<>>, nones |-> 0, it |-> it]
    ELSE LET r == IF Head(sched) = "next" THEN Traverse_next_front(it)
                  ELSE Traverse_next_back(it)
             rest == Traverse_both(r.it, Tail(sched))
         IN  IF r.item = NoEdge THEN [rest EXCEPT !.nones = @ + 1]
             ELSE IF Head(sched) = "next" THEN [rest EXCEPT !.front = <<r.item>> \o @]
             ELSE [rest EXCEPT !.back = <<r.item>> \o @]

(* The iterator on the subtree of r after i items were taken from the      *)
(* front and j from the back, e being the forward sequence.                *)
Taken(r, e, i, j) ==
    [root |-> r,
     next |-> IF i < Len(e) THEN e[i + 1] ELSE NoEdge,
     next_back |-> IF j < Len(e) THEN e[Len(e) - j] ELSE NoEdge]

(* C27: backward traversal mirrors forward traversal.  On a tree that is   *)
(* not changed meanwhile, with e the forward edge sequence of r's subtree: *)
(* a double-ended Traverse seeded at r from which i edges were taken at    *)
(* the front and j at the back stands between e[i] and e[Len(e) - j + 1];  *)
(* while edges are left, next() returns e[i + 1] and next_back() returns   *)
(* e[Len(e) - j], and once i + j = Len(e) both return none.  So for any    *)
(* order of calls, what next() returned followed by what next_back()       *)
(* returned reversed is e, each edge once (checked call by call for every  *)
(* (i, j), and for every order of calls in the program of MaxNodes         *)
(* nodes); next_back alone and reverse_traverse yield e reversed.          *)
C27_BackwardMirror ==
    (Running /\ Forest) =>
        \A r \in LiveNodes :
            LET e == Edges(r)
                L == Len(e)
            IN  /\ Traverse_new(r) = Taken(r, e, 0, 0)
                /\ \A i \in 0..L : \A j \in 0..(L - i) :
                      LET it == Taken(r, e, i, j) IN
                      IF i + j < L
                      THEN /\ Traverse_next_front(it) =
                                [status |-> "ok", item |-> e[i + 1], it |-> Taken(r, e, i + 1, j)]
                           /\ Traverse_next_back(it) =
                                [status |-> "ok", item |-> e[L - j], it |-> Taken(r, e, i, j + 1)]
                      ELSE /\ Traverse_next_front(it) = [status |-> "ok", item |-> NoEdge, it |-> it]
                           /\ Traverse_next_back(it) = [status |-> "ok", item |-> NoEdge, it |-> it]
                /\ pc = 0 =>
                      \A sched \in [1..(L + 1) -> Sides] :
                          LET b == Traverse_both(Traverse_new(r), sched) IN
                          b.front \o Reverse(b.back) = e /\ b.nones = 1
                /\ Traverse_both(Traverse_new(r), [k \in 1..(L + 1) |-> "next_back"]) =
                      [front |-> <<>>, back |-> Reverse(e), nones |-> 1, it |-> Taken(r, e, 0, L)]
                /\ ReverseTraverse(r) = [status |-> "ok", items |-> Reverse(e)]

(* it_works after line 42: the walk of node 1 taken from both ends in      *)
(* turn, and backward alone.                                               *)
C27_Witness ==
    /\ pc = ItWorksDetached
    /\ LET b == Traverse_both(Traverse_new(1),
                   <<"next_back", "next", "next_back", "next", "next", "next_back",
                     "next_back", "next", "next">>)
       IN  /\ b.back = <<End(1), End(3), Start(3), End(2)>>
           /\ b.front = <<Start(1), Start(4), End(4), Start(2)>>
           /\ b.nones = 1
    /\ ReverseTraverse(1).items =
          <<End(1), End(3), Start(3), End(2), Start(2), End(4), Start(4), Start(1)>>

(***************************************************************************)
(* The RefCell acquisitions of a call.  A borrow_mut() or borrow() inside  *)
(* an operation makes a guard (RefMut, Ref) that lives to the end of its   *)
(* block or statement; dropping the guard releases the record, and a panic *)
(* drops every guard alive while it unwinds.  A call is the sequence of    *)
(* acquisitions and releases it makes when nothing fails.                  *)
(***************************************************************************)
Acquire(n) == [ev |-> "acquire", kind |-> "RefMut", node |-> n]
AcquireShared(n) == [ev |-> "acquire", kind |-> "Ref", node |-> n]
Release_guard(g) == [g EXCEPT !.ev = "release"]

(* borrow_mut() on n, kept to the end of a block that does nothing else    *)
(* with a guard; borrow() on n for one expression.                         *)
Borrowed(n) == <<Acquire(n), Release_guard(Acquire(n))>>
Read(n) == <<AcquireShared(n), Release_guard(AcquireShared(n))>>

(* Drop of a guard: BorrowRefMut sets the flag back to unused, BorrowRef   *)
(* counts one reader less.                                                 *)
released(flags, g) ==
    [flags EXCEPT ![g.node] = IF g.kind = "RefMut" THEN 0 ELSE @ - 1]

(* Unwinding that forgets the guards.                                      *)
unwind_leaking(flags, guards) == flags

(* Unwinding: the guards alive are dropped, the last made first.           *)
RECURSIVE unwind(_, _)
unwind(flags, guards) ==
    IF guards = <<>> THEN flags
    ELSE unwind(released(flags, Head(guards)), Tail(guards))

(* guards without the guard that the release e drops.                      *)
RECURSIVE dropped(_, _)
dropped(guards, e) ==
    IF guards = <<>> THEN <<>>
    ELSE IF Head(guards).node = e.node /\ Head(guards).kind = e.kind THEN Tail(guards)
    ELSE <<Head(guards)>> \o dropped(Tail(guards), e)

(* The flags after the events, made from flags with guards alive: an       *)
(* acquisition that RefCell refuses panics, and the call unwinds.          *)
RECURSIVE run_events(_, _, _)
run_events(flags, events, guards) ==
    IF events = <<>> THEN [flags |-> unwind(flags, guards), status |-> "ok"]
    ELSE LET e == Head(events) IN
         IF e.ev = "release"
         THEN run_events(released(flags, e), Tail(events), dropped(guards, e))
         ELSE IF e.kind = "RefMut" /\ flags[e.node] # 0
              THEN [flags |-> unwind(flags, guards), status |-> "BorrowConflict"]
         ELSE IF e.kind = "Ref" /\ flags[e.node] < 0
              THEN [flags |-> unwind(flags, guards), status |-> "BorrowConflict"]
         ELSE run_events([flags EXCEPT ![e.node] = IF e.kind = "RefMut" THEN -1 ELSE @ + 1],
                         Tail(events), <<e>> \o guards)

(* NodeData::detach on n: the next sibling or else the parent, then the    *)
(* previous sibling or else the parent, each borrowed for one assignment.  *)
detach_events(h, n) ==
    LET next_sibling_strong == h.next_sibling[n]
        previous_sibling_opt == upgrade(h, h.previous_sibling[n])
        parent_strong == upgrade(h, h.parent[n])
    IN  (IF next_sibling_strong # None THEN Borrowed(next_sibling_strong)
         ELSE IF parent_strong # None THEN Borrowed(parent_strong)
         ELSE <<>>)
        \o
        (IF previous_sibling_opt # None THEN Borrowed(previous_sibling_opt)
         ELSE IF parent_strong # None THEN Borrowed(parent_strong)
         ELSE <<>>)

(* The acquisitions and releases of the mutation call op(self, arg) on the *)
(* heap h.  The guard of self lives to the end of the call, that of the    *)
(* argument to the end of the inner block.                                 *)
Events_on(h, op, self, arg) ==
    LET h1 == NodeData_detach(h, arg, {self, arg})
        inserting(inner, outer) ==
            IF same_node(self, arg) THEN <<>>
            ELSE <<Acquire(self), Acquire(arg)>> \o detach_events(h, arg) \o inner
                 \o <<Release_guard(Acquire(arg))>> \o outer
                 \o <<Release_guard(Acquire(self))>>
        one(n) == IF n # None THEN Borrowed(n) ELSE <<>>
        or_parent(n) == IF n # None THEN Borrowed(n)
                        ELSE one(upgrade(h1, h1.parent[self]))
    IN  CASE op = "detach" ->
                <<Acquire(self)>> \o detach_events(h, self) \o <<Release_guard(Acquire(self))>>
          [] op = "append" -> inserting(<<>>, one(upgrade(h1, h1.last_child[self])))
          [] op = "prepend" -> inserting(one(h1.first_child[self]), <<>>)
          [] op = "insert_after" -> inserting(or_parent(h1.next_sibling[self]), <<>>)
          [] op = "insert_before" ->
                inserting(<<>>, or_parent(upgrade(h1, h1.previous_sibling[self])))

(* Node::_make_deep_copy from the child cursor on: Children::next reads    *)
(* the child's next sibling, make_copy its payload, append works on the    *)
(* two copies, has_children reads the child's first child, and children()  *)
(* of a child that has some reads it again.                                *)
RECURSIVE copy_children_events(_, _, _, _)
copy_children_events(h, parent_copy, cursor, fuel) ==
    IF h.status # "ok" \/ cursor = None \/ fuel = 0 THEN <<>>
    ELSE LET new_node == fresh_record(h)
             h1 == make_copy_on(h, cursor)
             h2 == IF h1.status # "ok" THEN h1 ELSE append_on(h1, parent_copy, new_node)
             h3 == IF h2.status = "ok" /\ h2.first_child[cursor] # None
                   THEN copy_children(h2, new_node, h2.first_child[cursor], fuel - 1)
                   ELSE h2
             h4 == IF h3.status # "ok" THEN h3
                   ELSE drop_dead([h3 EXCEPT !.handles = @ \ {new_node}],
                                  h3.handles \ {new_node})
         IN  Read(cursor) \o Read(cursor)
             \o (IF h1.status # "ok" THEN <<>>
                 ELSE Events_on(h1, "append", parent_copy, new_node) \o Read(cursor))
             \o (IF h2.status = "ok" /\ h2.first_child[cursor] # None
                 THEN Read(cursor)
                      \o copy_children_events(h2, new_node, h2.first_child[cursor], fuel - 1)
                 ELSE <<>>)
             \o copy_children_events(h4, parent_copy, h.next_sibling[cursor], fuel - 1)

(* The acquisitions and releases of the call op(self, arg) the program     *)
(* makes: a mutation, or make_copy (the payload read for its clone) or     *)
(* make_deep_copy (make_copy, children() of the node, then its children).  *)
Events(op, self, arg) ==
    CASE op = "make_copy" -> Read(self)
      [] op = "make_deep_copy" ->
            Read(self) \o Read(self)
            \o copy_children_events(make_copy_on(Heap, self), fresh_record(Heap),
                                    first_child[self], Records)
      [] OTHER -> Events_on(Heap, op, self, arg)

(* What the call leaves of the flags, and how it ends as far as RefCell is *)
(* concerned.                                                              *)
AfterCall(op, self, arg) == run_events(bstate, Events(op, self, arg), <<>>)

(* A program that opens and closes payload accessors, mutates and copies.  *)
NextAccessCopy ==
    \/ Node_new
    \/ \E n \in NodeId : Node_detach(n)
    \/ \E n \in NodeId, x \in NodeId : Node_append(n, x)
    \/ \E n \in NodeId, x \in NodeId : Node_prepend(n, x)
    \/ \E n \in NodeId, x \in NodeId : Node_insert_after(n, x)
    \/ \E n \in NodeId, x \in NodeId : Node_insert_before(n, x)
    \/ \E n \in NodeId : Node_make_copy(n)
    \/ \E n \in NodeId : Node_make_deep_copy(n)
    \/ \E n \in NodeId : Node_borrow(n)
    \/ \E n \in NodeId : Node_borrow_mut(n)
    \/ \E n \in NodeId : Release(n)

SpecAccessCopy == InitWith(1..(2 * MaxNodes), 0) /\ [][NextAccessCopy]_vars

CallOps == MutationOps \cup {"make_copy", "make_deep_copy"}

(* The call just made was op(n, .), on n.                                  *)
Called(op, n) == last'.op = op /\ last'.self = n

(* C28: whether an append, prepend, insert_before, insert_after, detach,   *)
(* make_copy or make_deep_copy returns or fails, the RefCell flag of every *)
(* record after the call's last release, or after its unwinding, is what   *)
(* it was before the call, and so is the access state (Free, Shared(n),    *)
(* Exclusive) of every record: an operation that follows finds no          *)
(* acquisition left over.  (The call fails with BorrowConflict exactly     *)
(* when RefCell refuses one of its acquisitions.)                          *)
C28_NoLeftoverAccess ==
    [][\A op \in CallOps, n \in NodeId :
          Called(op, n) =>
              \A x \in Link :
                  x = (IF op \in MutationOps THEN last'.arg ELSE None) =>
                      /\ AfterCall(op, n, x).flags = bstate
                      /\ bstate' = bstate
                      /\ accessors' = accessors
                      /\ \A m \in NodeId : /\ Free(m)' <=> Free(m)
                                           /\ Shared(m)' <=> Shared(m)
                                           /\ Exclusive(m)' <=> Exclusive(m)
                      /\ (AfterCall(op, n, x).status = "BorrowConflict")
                            <=> (last'.result = "BorrowConflict")]_vars

(* An insert_after that failed while it held two records, a shared         *)
(* accessor being open on the old next sibling: the two are free again     *)
(* and the accessor is still the only one.                                 *)
C28_Witness ==
    /\ last.op = "insert_after" /\ last.result = "BorrowConflict"
    /\ Free(last.self) /\ Free(last.arg)
    /\ bstate[last.self] = 0 /\ bstate[last.arg] = 0
    /\ \E m \in NodeId : Shared(m) /\ next_sibling[last.self] = m

(***************************************************************************)
(* Parent links and child chains.                                          *)
(***************************************************************************)
(* n is one of the records reached from p.first_child by next_sibling.     *)
InChainOf(n, p) == n \in Range(Children(p))

(* parent() of n is p.                                                     *)
ParentIs(n, p) == upgrade(Heap, parent[n]) = p

ParentLinksAgree ==
    /\ \A n \in LiveNodes, p \in LiveNodes : ParentIs(n, p) <=> InChainOf(n, p)
    /\ \A n \in LiveNodes : next_sibling[n] # None =>
           upgrade(Heap, parent[next_sibling[n]]) = upgrade(Heap, parent[n])
    /\ \A n \in LiveNodes : ~ParentIs(n, n)

(* C29: after every completed mutation, for all live records N and P,      *)
(* N.parent resolves to P exactly when N is reached from P.first_child by  *)
(* next_sibling links; the records of one sibling chain report the same    *)
(* parent or none; no record is its own parent.                            *)
C29_ParentLinksAgree ==
    (Running /\ last.op \in MutationOps) => ParentLinksAgree

(* What the code keeps: as long as no call has made a strong cycle (C1),   *)
(* the parent links agree with the child chains.                           *)
ParentLinksAgreeInForest ==
    (Running /\ last.op \in MutationOps /\ Forest) => ParentLinksAgree

====
